---- MODULE Spec2Model ----
(***************************************************************************)
(* Discovery-and-polling subsystem of the resource manager.                *)
(*                                                                         *)
(* Several programs of the repository use it; Init picks the one running.  *)
(*  "web_dashboard"   web_dashboard.py: the HTTP request thread            *)
(*                    (HTTPServer serves one request at a time) and the    *)
(*                    DashboardData monitor thread work on the same        *)
(*                    ServerDiscovery (core/server_discovery.py).  The     *)
(*                    configuration file is the one an earlier run left.   *)
(*  "network_monitor" core/network_discovery.py (NetworkDiscovery): the    *)
(*                    calling thread and the _monitor_loop thread.         *)
(*  "library"         ServerDiscovery called from one thread, as           *)
(*                    test_network_scanner.py does (SpecLibrary).          *)
(*  "collect"         the parsing done by one collection, a pure function  *)
(*                    of the command outputs (SpecCollect).                *)
(* Spec is the two long-running programs; SpecSwitch adds the dashboard's  *)
(* switch-server request, whose refresh polls from the request thread.     *)
(*                                                                         *)
(* Modelling conventions.                                                  *)
(*  - A Python dict is a function; dict.update is Update.  A dict with     *)
(*    string keys is a record whose DOMAIN is the set of keys it holds.    *)
(*  - Collections (calls of _get_system_info / get_server_status) are      *)
(*    numbered 1, 2, ... by "cycle".  The readings of collection c are     *)
(*    written c: every metric of a successful collection c has the value   *)
(*    c, a defaulted metric is 0, the error text of a failed collection c  *)
(*    is written c, and a last_check / timestamp written on behalf of      *)
(*    collection c is written c.                                           *)
(*  - Fields that are written once and never read by the subsystem         *)
(*    (connected_at, network, os, cpu_cores, last_updated, ...)            *)
(*    are left out.                                                        *)
(***************************************************************************)
EXTENDS Integers, FiniteSets, Sequences, TLC

\* ------------------------------------------------------------------ bounds
NumHosts == 2
MaxCycles == 3
\* the worker pool of the accessibility check (10 in the program)
max_workers == 1
\* the address ranges the machine is attached to
NumRanges == 2

Hosts == 1..NumHosts
NoHost == 0
Passwords == {"", "secret"}
NoFile == [exists |-> FALSE]
\* ServerDiscovery.network_ranges: the list get_network_ranges() returned when
\* the object was constructed (range n is written n).
network_ranges == [n \in 1..NumRanges |-> n]
Pollers == {"monitor", "caller"}

VARIABLES
    program,            \* which entry point is running
    cycle,              \* collections started so far
    \* ---- ServerDiscovery and the web dashboard
    discovered_servers, \* ServerDiscovery.discovered_servers
    connected_servers,  \* ServerDiscovery.connected_servers
    config_file,        \* server_config.json on disk
    current_server,     \* DashboardData.current_server
    running,            \* DashboardData.running
    caller,             \* position of the thread that calls ServerDiscovery
    tick,               \* per thread: the get_connected_servers_info() call
    response,           \* what the last completed call / request returned
    \* ---- NetworkDiscovery
    nd_discovered,      \* NetworkDiscovery.discovered_servers
    nd_accessible,      \* NetworkDiscovery.accessible_servers
    nd_scan_results,    \* NetworkDiscovery.scan_results
    nd_running,         \* NetworkDiscovery.running
    nd_caller,          \* position of the thread that calls NetworkDiscovery
    nd_loop,            \* position of the _monitor_loop thread
    \* ---- one collection, command by command
    cmd_outputs,        \* what each remote command printed
    sd_result,          \* what ServerDiscovery._get_system_info returned
    nd_result,          \* what NetworkDiscovery.get_server_status returned
    \* ---- one sweep, probe by probe
    scanning,           \* ServerDiscovery.scanning
    sweep,              \* position and locals of the scan_network() call
    reachable,          \* the addresses that answer a probe
    backlog,            \* requests waiting for the HTTP server's one thread
    \* ---- what leaves the program as text
    exc_text,           \* str(e) of the exception caught in a collection
    stdout              \* the lines printed that quote a command

sdvars == <<discovered_servers, connected_servers, config_file, current_server,
            running, caller, tick, response>>

ndvars == <<nd_discovered, nd_accessible, nd_scan_results, nd_running,
            nd_caller, nd_loop>>

colvars == <<cmd_outputs, sd_result, nd_result>>

scanvars == <<scanning, sweep, reachable, backlog>>

outvars == <<exc_text, stdout>>

\* ------------------------------------------------------------ dict helpers
Update(d, e) ==
    [k \in (DOMAIN d) \cup (DOMAIN e) |-> IF k \in DOMAIN e THEN e[k] ELSE d[k]]

Put(d, k, v) ==
    [x \in (DOMAIN d) \cup {k} |-> IF x = k THEN v ELSE d[x]]

Del(d, k) ==
    [x \in (DOMAIN d) \ {k} |-> d[x]]

EmptyDict == [x \in {} |-> 0]

Get(d, k, default) ==
    IF k \in DOMAIN d THEN d[k] ELSE default

\* --------------------------------------------------- ServerDiscovery: data
\* _get_system_info: the dictionary returned by collection number c.
\* raised = an exception reached the outer except clause.
SystemInfoDict(c, raised) ==
    IF raised
    THEN [cpu_percent |-> 0, memory_percent |-> 0, disk_percent |-> 0,
          load_avg |-> 0, disk_partitions |-> 0, processes |-> 0, error |-> c]
    ELSE [cpu_percent |-> c, memory_percent |-> c, disk_percent |-> c,
          load_avg |-> c, memory_info |-> c, disk_info |-> c,
          disk_partitions |-> c, processes |-> c]

\* _get_server_info: hostname and status of the host.
ServerInfoDict(ip, c, raised) ==
    IF raised
    THEN [hostname |-> ip, ip |-> ip, status |-> "Error", error |-> c]
    ELSE [hostname |-> ip, ip |-> ip, status |-> "Online"]

\* scan_network, scan_ip: the record stored for an address that answered.
ScanRecord ==
    [status |-> "discovered", ssh_connected |-> FALSE]

\* handle_scan_network: the record stored for a host quick_scan returned.
QuickScanRecord(ip) ==
    [status |-> "discovered", ssh_connected |-> FALSE,
     info |-> [ip |-> ip, hostname |-> ip, ssh_accessible |-> TRUE]]

\* connect_to_server: the record stored in connected_servers.
ConnectedRecord(username, password, server_info, c) ==
    [ssh_connected |-> TRUE, username |-> username, password |-> password,
     info |-> server_info, last_check |-> c]

\* save_configuration: a connected record without its password.
StripPassword(rec) ==
    [k \in (DOMAIN rec) \ {"password"} |-> rec[k]]

\* save_configuration: the document written.  Every value the registry holds
\* is a str, a number, a bool, a list or a dict with str keys (timestamps are
\* isoformat() strings), so json.dump writes it and json.load reads it back
\* value for value; what the document differs in from the registry is the
\* password key.
ConfigDocument(disc, conn) ==
    [exists |-> TRUE,
     discovered_servers |-> disc,
     connected_servers |-> [ip \in DOMAIN conn |-> StripPassword(conn[ip])],
     network_ranges |-> network_ranges]

\* The file a run of the dashboard finds: none, or the one saved by an
\* earlier run in which hosts 1 and 2 were found and connected (their
\* readings are those of collection 1).
EarlierRunHosts == {1, 2}

EarlierRunInfo(ip) ==
    Update(ServerInfoDict(ip, 1, FALSE), SystemInfoDict(1, FALSE))

EarlierRunDocument ==
    ConfigDocument(
        [ip \in EarlierRunHosts |->
            [status |-> "discovered", ssh_connected |-> TRUE,
             info |-> EarlierRunInfo(ip)]],
        [ip \in EarlierRunHosts |->
            ConnectedRecord("root", "secret", EarlierRunInfo(ip), 1)])

\* --------------------------------------------------------- polling helpers
\* One call of get_connected_servers_info().
\*   pc    "idle" | "iter" (at the for statement) | "store" (in the loop
\*         body: _get_system_info called for cur, results not yet written)
\*   size  len(dict) when the iterator was created
\*   snapshot  the keys of the dict when the iterator was created
\*   live  the iterated dict is still self.connected_servers
\*   old   the iterated dict, once load_configuration has bound another one
\*   c     number of the collection made for cur
IdleTick ==
    [pc |-> "idle", size |-> 0, snapshot |-> {}, live |-> FALSE,
     old |-> EmptyDict, done |-> {}, cur |-> NoHost, c |-> 0,
     sys |-> EmptyDict, name |-> NoHost, servers_info |-> EmptyDict]

\* The dict object the iterator of thread p walks.
IterDict(p) ==
    IF tick[p].live THEN connected_servers ELSE tick[p].old

\* load_configuration binds a new dict: running iterators keep the old one.
IterDetach(t, conn) ==
    [p \in DOMAIN t |->
        IF t[p].live THEN [t[p] EXCEPT !.live = FALSE, !.old = conn] ELSE t[p]]

\* ------------------------------------------------------------------- Init
NoResponse == [op |-> "none", ip |-> NoHost, success |-> FALSE]

IdleCaller == [pc |-> "idle", ip |-> NoHost, c |-> 0]

\* load_configuration: the dictionaries bound from the document.
load_connected_keeps(doc) ==
    connected_servers

load_connected(doc) ==
    doc.connected_servers

load_discovered(doc) ==
    doc.discovered_servers

load_network_ranges(doc) ==
    doc.network_ranges

NoOutputs == [cpu |-> <<>>, mem |-> <<>>, disk |-> <<>>, load |-> <<>>,
              ps |-> <<>>, channel |-> TRUE]

NoResult == [returned |-> FALSE]

\* Nothing has been printed, no exception caught.
OutIdle ==
    /\ exc_text = EmptyDict
    /\ stdout = {}

\* No collection is being followed command by command.
ColIdle ==
    /\ OutIdle
    /\ cmd_outputs = NoOutputs
    /\ sd_result = NoResult
    /\ nd_result = NoResult

\* scan_network is not running.
IdleSweep ==
    [pc |-> "idle", r |-> 0, i |-> 0, last |-> 0, threads |-> {}, in_flight |-> {},
     results |-> {}, discovered |-> {}, dispatched |-> {}, returned |-> {},
     stopped |-> FALSE, start_ip |-> 0, max_ips |-> 0]

\* No sweep is being followed probe by probe.
ScanIdle ==
    /\ scanning = FALSE
    /\ sweep = IdleSweep
    /\ reachable = {}
    /\ backlog = {}

\* NetworkDiscovery.__init__
NDIdle ==
    /\ nd_discovered = EmptyDict
    /\ nd_accessible = EmptyDict
    /\ nd_scan_results = EmptyDict
    /\ nd_running = FALSE
    /\ nd_caller = [pc |-> "idle", pending |-> {}, in_flight |-> {},
                    done |-> EmptyDict, checked |-> {},
                    accessible |-> EmptyDict]
    /\ nd_loop = [pc |-> "off", todo |-> {}, visited |-> {}, snapshot |-> {},
                  cur |-> NoHost, c |-> 0, overdue |-> FALSE]

\* ServerDiscovery.__init__
SDIdle ==
    /\ config_file = NoFile
    /\ discovered_servers = EmptyDict
    /\ connected_servers = EmptyDict
    /\ current_server = NoHost
    /\ running = FALSE
    /\ caller = IdleCaller
    /\ tick = [p \in Pollers |-> IdleTick]
    /\ response = NoResponse

\* ServerDiscovery.__init__, DashboardData.__init__ with its
\* load_configuration(), and start_dashboard with its start_monitoring().
DashboardInit ==
    /\ program = "web_dashboard"
    /\ \/ /\ config_file = NoFile
          /\ discovered_servers = EmptyDict
          /\ connected_servers = EmptyDict
          /\ cycle = 0
       \/ /\ config_file = EarlierRunDocument
          /\ discovered_servers = load_discovered(config_file)
          /\ connected_servers = load_connected(config_file)
          /\ cycle = 1
    /\ current_server = NoHost
    /\ running = TRUE
    /\ caller = IdleCaller
    /\ tick = [p \in Pollers |-> IdleTick]
    /\ response = NoResponse
    /\ NDIdle
    /\ ColIdle
    /\ ScanIdle

\* The calling thread is between two calls (the dashboard serves requests
\* until it is interrupted).
CallerIdle ==
    /\ program \in {"library", "web_dashboard"}
    /\ program = "web_dashboard" => running
    /\ caller.pc = "idle"

\* ------------------------------------------------- ServerDiscovery methods
\* scan_network: every address of `found` answered the ping.
scan_network(found) ==
    Update(discovered_servers, [ip \in found |-> ScanRecord])

\* handle_scan_network: every host of `found` was returned by quick_scan.
handle_scan_network(found) ==
    Update(discovered_servers, [ip \in found |-> QuickScanRecord(ip)])

connect_to_server_rebuilds(ip, password, server_info, c) ==
    [x \in {ip} |-> ConnectedRecord("root", password, server_info, c)]

\* connect_to_server after a successful test_ssh_connection.
connect_to_server_connected(ip, password, server_info, c) ==
    Put(connected_servers, ip, ConnectedRecord("root", password, server_info, c))

connect_to_server_discovered(ip, server_info) ==
    IF ip \in DOMAIN discovered_servers
    THEN [discovered_servers EXCEPT ![ip] =
            Put(Put(@, "ssh_connected", TRUE), "info", server_info)]
    ELSE discovered_servers

\* disconnect_from_server
disconnect_connected(ip) ==
    Del(connected_servers, ip)

disconnect_discovered(ip) ==
    IF ip \in DOMAIN discovered_servers
    THEN [discovered_servers EXCEPT ![ip] = Put(@, "ssh_connected", FALSE)]
    ELSE discovered_servers

\* ------------------------------------------------------ calling thread steps
\* scan_network() called directly.
ScanNetwork(found) ==
    /\ CallerIdle
    /\ program = "library"
    /\ discovered_servers' = scan_network(found)
    /\ response' = [op |-> "scan", ip |-> NoHost, success |-> TRUE]
    /\ UNCHANGED <<connected_servers, config_file, current_server, running,
                   caller, tick, cycle>>

\* handle_scan_network: the hosts that accept a key-based login are stored.
HandleScanNetwork(found) ==
    /\ CallerIdle
    /\ program = "web_dashboard"
    /\ discovered_servers' = handle_scan_network(found)
    /\ response' = [op |-> "scan", ip |-> NoHost, success |-> TRUE]
    /\ UNCHANGED <<connected_servers, config_file, current_server, running,
                   caller, tick, cycle>>

\* connect_to_server(ip, "root", password), called directly or as the first
\* part of handle_connect_server.
\*   probe_ok     result of test_ssh_connection
\*   srv_raised   _get_server_info ended in its except clause
\*   sys_raised   _get_system_info ended in its except clause
ConnectToServer(ip, password, probe_ok, srv_raised, sys_raised) ==
    /\ CallerIdle
    /\ IF probe_ok
       THEN /\ cycle < MaxCycles
            /\ LET c == cycle + 1
                   server_info == Update(ServerInfoDict(ip, c, srv_raised),
                                         SystemInfoDict(c, sys_raised))
               IN /\ connected_servers' =
                        connect_to_server_connected(ip, password, server_info, c)
                  /\ discovered_servers' =
                        connect_to_server_discovered(ip, server_info)
                  /\ cycle' = c
            /\ IF program = "web_dashboard"
               THEN /\ caller' = [pc |-> "connect_refresh", ip |-> ip, c |-> 0]
                    /\ UNCHANGED response
               ELSE /\ response' = [op |-> "connect", ip |-> ip, success |-> TRUE]
                    /\ UNCHANGED caller
       ELSE /\ srv_raised = FALSE
            /\ sys_raised = FALSE
            /\ response' = [op |-> "connect", ip |-> ip, success |-> FALSE]
            /\ UNCHANGED <<connected_servers, discovered_servers, cycle, caller>>
    /\ UNCHANGED <<config_file, current_server, running, tick>>

\* info.update(system_info) of handle_connect_server.
refresh_info(info, system_info) ==
    Update(info, system_info)

\* handle_connect_server, second part: a second _get_system_info, merged into
\* the stored info.  The info dict is the object connect_to_server also
\* stored in the discovered record.
ConnectRefresh(raised) ==
    /\ program = "web_dashboard"
    /\ caller.pc = "connect_refresh"
    /\ cycle < MaxCycles
    /\ LET c == cycle + 1
           ip == caller.ip
           system_info == SystemInfoDict(c, raised)
       IN /\ cycle' = c
          /\ caller' = [caller EXCEPT !.pc = "connect_stamp", !.c = c]
          /\ IF ip \in DOMAIN connected_servers
             THEN /\ connected_servers' =
                       [connected_servers EXCEPT ![ip].info =
                            refresh_info(@, system_info)]
                  /\ discovered_servers' =
                       IF ip \in DOMAIN discovered_servers
                       THEN [discovered_servers EXCEPT ![ip].info =
                                refresh_info(@, system_info)]
                       ELSE discovered_servers
             ELSE UNCHANGED <<connected_servers, discovered_servers>>
    /\ UNCHANGED <<config_file, current_server, running, tick, response>>

\* handle_connect_server, last part: last_check, then the response.
ConnectStamp ==
    /\ program = "web_dashboard"
    /\ caller.pc = "connect_stamp"
    /\ connected_servers' =
          IF caller.ip \in DOMAIN connected_servers
          THEN [connected_servers EXCEPT ![caller.ip].last_check = caller.c]
          ELSE connected_servers
    /\ caller' = IdleCaller
    /\ response' = [op |-> "connect", ip |-> caller.ip, success |-> TRUE]
    /\ UNCHANGED <<discovered_servers, config_file, current_server, running,
                   tick, cycle>>

\* disconnect_from_server(ip), called directly or by handle_disconnect_server
DisconnectFromServer(ip) ==
    /\ CallerIdle
    /\ IF ip \in DOMAIN connected_servers
       THEN /\ connected_servers' = disconnect_connected(ip)
            /\ discovered_servers' = disconnect_discovered(ip)
            /\ response' = [op |-> "disconnect", ip |-> ip, success |-> TRUE]
       ELSE /\ response' = [op |-> "disconnect", ip |-> ip, success |-> FALSE]
            /\ UNCHANGED <<connected_servers, discovered_servers>>
    /\ UNCHANGED <<config_file, current_server, running, caller, tick, cycle>>

\* save_configuration()
SaveConfiguration(io_ok) ==
    /\ CallerIdle
    /\ program = "library"
    /\ config_file' =
          IF io_ok
          THEN ConfigDocument(discovered_servers, connected_servers)
          ELSE config_file
    /\ response' = [op |-> "save", ip |-> NoHost, success |-> io_ok]
    /\ UNCHANGED <<discovered_servers, connected_servers, current_server,
                   running, caller, tick, cycle>>

\* load_configuration(), called directly or by handle_load_config
LoadConfiguration ==
    /\ CallerIdle
    /\ IF config_file.exists
       THEN /\ discovered_servers' = load_discovered(config_file)
            /\ connected_servers' = load_connected(config_file)
            /\ tick' = IterDetach(tick, connected_servers)
            /\ response' = [op |-> "load", ip |-> NoHost, success |-> TRUE]
       ELSE /\ response' = [op |-> "load", ip |-> NoHost, success |-> FALSE]
            /\ UNCHANGED <<discovered_servers, connected_servers, tick>>
    /\ UNCHANGED <<config_file, current_server, running, caller, cycle>>

\* ----------------------------------------------------------- polling steps
\* get_connected_servers_info() reaches its for statement.
BeginTick(p) ==
    tick' = [tick EXCEPT ![p] =
               [IdleTick EXCEPT !.pc = "iter", !.live = TRUE,
                                !.snapshot = DOMAIN connected_servers,
                                !.size = Cardinality(DOMAIN connected_servers)]]

\* get_connected_servers_info() called directly.
GetConnectedServersInfo ==
    /\ CallerIdle
    /\ program = "library"
    /\ BeginTick("caller")
    /\ caller' = [pc |-> "poll", ip |-> NoHost, c |-> 0]
    /\ UNCHANGED <<discovered_servers, connected_servers, config_file,
                   current_server, running, cycle, response>>

\* handle_switch_server -> set_current_server(ip) -> update_data()
HandleSwitchServer(ip) ==
    /\ CallerIdle
    /\ program = "web_dashboard"
    /\ current_server' = ip
    /\ BeginTick("caller")
    /\ caller' = [pc |-> "switch", ip |-> ip, c |-> 0]
    /\ UNCHANGED <<discovered_servers, connected_servers, config_file,
                   running, cycle, response>>

\* DashboardData._monitor_loop: while self.running: update_data(); sleep
MonitorTick ==
    /\ program = "web_dashboard"
    /\ running
    /\ tick["monitor"].pc = "idle"
    /\ BeginTick("monitor")
    /\ UNCHANGED <<discovered_servers, connected_servers, config_file,
                   current_server, running, caller, cycle, response>>

\* How a call leaves get_connected_servers_info: by return (completed) or by
\* the RuntimeError of the for statement, which _get_multi_server_info catches.
FinishTick(p, completed) ==
    /\ tick' = [tick EXCEPT ![p] = IdleTick]
    /\ IF p = "caller"
       THEN /\ caller' = IdleCaller
            /\ response' = [op |-> caller.pc, ip |-> caller.ip,
                            success |-> (program = "web_dashboard" \/ completed)]
       ELSE UNCHANGED <<caller, response>>

\* The for statement asks the iterator for the next item and the loop body
\* starts the collection for it.
PollNext(p, raised) ==
    /\ program \in {"library", "web_dashboard"}
    /\ tick[p].pc = "iter"
    /\ LET d == IterDict(p)
           rest == (DOMAIN d) \ tick[p].done
       IN IF Cardinality(DOMAIN d) # tick[p].size
          THEN \* RuntimeError: dictionary changed size during iteration
               /\ raised = FALSE
               /\ FinishTick(p, FALSE)
               /\ UNCHANGED cycle
          ELSE IF rest = {}
          THEN /\ raised = FALSE
               /\ FinishTick(p, TRUE)
               /\ UNCHANGED cycle
          ELSE /\ cycle < MaxCycles
               /\ \E ip \in rest :
                    tick' = [tick EXCEPT ![p].pc = "store",
                                         ![p].cur = ip,
                                         ![p].c = cycle + 1,
                                         ![p].name = Get(d[ip].info, "hostname", ip),
                                         ![p].sys = SystemInfoDict(cycle + 1, raised)]
               /\ cycle' = cycle + 1
               /\ UNCHANGED <<caller, response>>
    /\ UNCHANGED <<discovered_servers, connected_servers, config_file,
                   current_server, running>>

\* get_connected_servers_info: what the loop body writes to the stored
\* record of a host once its collection c has returned system_info.
poll_record(rec, system_info, c) ==
    [rec EXCEPT !.last_check = c]

poll_advance_stops(t, ip, entry) ==
    [t EXCEPT !.pc = "iter",
              !.done = IF "error" \in DOMAIN Get(entry, "system_info", entry)
                       THEN Hosts ELSE @ \cup {ip},
              !.cur = NoHost, !.c = 0,
              !.sys = EmptyDict, !.name = NoHost,
              !.servers_info = Put(@, ip, entry)]

\* get_connected_servers_info: the loop control after the body ran for ip.
poll_advance(t, ip, entry) ==
    [t EXCEPT !.pc = "iter", !.done = @ \cup {ip}, !.cur = NoHost, !.c = 0,
              !.sys = EmptyDict, !.name = NoHost,
              !.servers_info = Put(@, ip, entry)]

\* The loop body after _get_system_info returned.
PollStore(p) ==
    /\ program \in {"library", "web_dashboard"}
    /\ tick[p].pc = "store"
    /\ LET ip == tick[p].cur
           ok_entry == [name |-> tick[p].name, ip |-> ip, status |-> "Online",
                        ssh_connected |-> TRUE, system_info |-> tick[p].sys,
                        last_check |-> tick[p].c]
           err_entry == [name |-> tick[p].name, ip |-> ip, status |-> "Error",
                         ssh_connected |-> FALSE, error |-> "KeyError",
                         last_check |-> tick[p].c]
       IN IF ip \in DOMAIN connected_servers
          THEN /\ connected_servers' =
                    [connected_servers EXCEPT ![ip] =
                        poll_record(@, tick[p].sys, tick[p].c)]
               /\ tick' = [tick EXCEPT ![p] = poll_advance(@, ip, ok_entry)]
          ELSE /\ UNCHANGED connected_servers
               /\ tick' = [tick EXCEPT ![p] = poll_advance(@, ip, err_entry)]
    /\ UNCHANGED <<discovered_servers, config_file, current_server, running,
                   caller, cycle, response>>

\* start_dashboard, KeyboardInterrupt: stop_monitoring() clears the flag and
\* calls update_thread.join(timeout=1).
StopMonitoring ==
    /\ program = "web_dashboard"
    /\ running
    /\ caller.pc = "idle"
    /\ running' = FALSE
    /\ caller' = [IdleCaller EXCEPT !.pc = "join"]
    /\ UNCHANGED <<discovered_servers, connected_servers, config_file,
                   current_server, tick, cycle, response>>

\* join(timeout=1): the second of the timeout has passed.
JoinTimeout ==
    /\ program = "web_dashboard"
    /\ caller.pc = "join"
    /\ caller' = [caller EXCEPT !.pc = "join_elapsed"]
    /\ UNCHANGED <<discovered_servers, connected_servers, config_file,
                   current_server, running, tick, cycle, response>>

join_over_at_once(ended, pc) ==
    TRUE

\* thread.join(timeout=1) returns: the thread has ended or the timeout has
\* passed.
join_over(ended, pc) ==
    ended \/ pc = "join_elapsed"

\* stop_monitoring returns.
StopReturn ==
    /\ program = "web_dashboard"
    /\ caller.pc \in {"join", "join_elapsed"}
    /\ join_over(tick["monitor"].pc = "off", caller.pc)
    /\ caller' = IdleCaller
    /\ UNCHANGED <<discovered_servers, connected_servers, config_file,
                   current_server, running, tick, cycle, response>>

\* DashboardData._monitor_loop: the while test fails, the thread ends.
MonitorExit ==
    /\ program = "web_dashboard"
    /\ ~running
    /\ tick["monitor"].pc = "idle"
    /\ tick' = [tick EXCEPT !["monitor"].pc = "off"]
    /\ UNCHANGED <<discovered_servers, connected_servers, config_file,
                   current_server, running, caller, cycle, response>>

\* The requests and thread steps of the dashboard.
DashboardNext ==
    \/ \E found \in SUBSET Hosts : HandleScanNetwork(found)
    \/ \E ip \in Hosts, password \in Passwords, probe_ok, srv_raised, sys_raised \in BOOLEAN :
          ConnectToServer(ip, password, probe_ok, srv_raised, sys_raised)
    \/ \E raised \in BOOLEAN : ConnectRefresh(raised)
    \/ ConnectStamp
    \/ \E ip \in Hosts : DisconnectFromServer(ip)
    \/ LoadConfiguration
    \/ MonitorTick
    \/ \E p \in Pollers, raised \in BOOLEAN : PollNext(p, raised)
    \/ \E p \in Pollers : PollStore(p)
    \/ StopMonitoring
    \/ JoinTimeout
    \/ StopReturn
    \/ MonitorExit

\* ------------------------------------------------------- NetworkDiscovery
\* get_server_status: the status dictionary of collection c.
StatusDict(ip, c) ==
    [ip |-> ip, timestamp |-> c, cpu_usage |-> c, memory_usage |-> c,
     disk_usage |-> c, load_average |-> c]

\* _check_ssh_access: the result for a host that accepted the login.
AccessResult(ip) ==
    [ip |-> ip, accessible |-> TRUE]

NDIdleCaller ==
    [pc |-> "idle", pending |-> {}, in_flight |-> {}, done |-> EmptyDict,
     checked |-> {}, accessible |-> EmptyDict]

NDLoopOff ==
    [pc |-> "off", todo |-> {}, visited |-> {}, snapshot |-> {}, cur |-> NoHost,
     c |-> 0, overdue |-> FALSE]

\* network_monitor: a NetworkDiscovery just constructed.
NDInit ==
    /\ program = "network_monitor"
    /\ cycle = 0
    /\ SDIdle
    /\ NDIdle
    /\ ColIdle
    /\ ScanIdle

\* discover_network: `found` are the addresses that answered the ping.
DiscoverNetwork(found) ==
    /\ nd_caller.pc = "idle"
    /\ nd_discovered' = [ip \in found |-> [discovered_at |-> 0]]
    /\ UNCHANGED <<nd_accessible, nd_scan_results, nd_running, nd_caller,
                   nd_loop, cycle>>

\* check_server_accessibility(): one future per discovered server submitted.
CheckBegin ==
    /\ nd_caller.pc = "idle"
    /\ nd_caller' = [NDIdleCaller EXCEPT !.pc = "check",
                                         !.pending = DOMAIN nd_discovered]
    /\ UNCHANGED <<nd_discovered, nd_accessible, nd_scan_results, nd_running,
                   nd_loop, cycle>>

\* ThreadPoolExecutor(max_workers=10): a worker is free to take a future.
worker_free_always(in_flight) ==
    TRUE

worker_free(in_flight) ==
    Cardinality(in_flight) < max_workers

\* A worker of the pool takes a submitted future and starts
\* _check_ssh_access(ip).
CheckStart(ip) ==
    /\ nd_caller.pc = "check"
    /\ ip \in nd_caller.pending
    /\ worker_free(nd_caller.in_flight)
    /\ nd_caller' = [nd_caller EXCEPT !.pending = @ \ {ip},
                                      !.in_flight = @ \cup {ip}]
    /\ UNCHANGED <<nd_discovered, nd_accessible, nd_scan_results, nd_running,
                   nd_loop, cycle>>

\* _check_ssh_access(ip) ends in its worker; the future is completed.
CheckFinish(ip, outcome) ==
    /\ nd_caller.pc = "check"
    /\ ip \in nd_caller.in_flight
    /\ nd_caller' = [nd_caller EXCEPT !.in_flight = @ \ {ip},
                                      !.done = Put(@, ip, outcome)]
    /\ UNCHANGED <<nd_discovered, nd_accessible, nd_scan_results, nd_running,
                   nd_loop, cycle>>

\* check_server_accessibility: the body of the as_completed loop for one
\* future.  outcome: "ok" (accessible), "fail" (not accessible), "raise"
\* (future.result() raised, caught inside the loop).
check_result(acc, ip, outcome) ==
    IF outcome = "ok" THEN Put(acc, ip, AccessResult(ip)) ELSE acc

check_advance_stops(nc, ip, outcome) ==
    IF outcome = "raise"
    THEN [nc EXCEPT !.pending = {}, !.in_flight = {}, !.done = EmptyDict]
    ELSE [nc EXCEPT !.done = Del(@, ip),
                    !.checked = @ \cup {ip},
                    !.accessible = check_result(@, ip, outcome)]

\* check_server_accessibility: the as_completed loop after one future.
check_advance(nc, ip, outcome) ==
    [nc EXCEPT !.done = Del(@, ip),
               !.checked = @ \cup {ip},
               !.accessible = check_result(@, ip, outcome)]

\* check_server_accessibility: as_completed yields a completed future.
CheckResult(ip) ==
    /\ nd_caller.pc = "check"
    /\ ip \in DOMAIN nd_caller.done
    /\ nd_caller' = check_advance(nd_caller, ip, nd_caller.done[ip])
    /\ UNCHANGED <<nd_discovered, nd_accessible, nd_scan_results, nd_running,
                   nd_loop, cycle>>

\* check_server_accessibility: the loop is over, the result is assigned.
CheckEnd ==
    /\ nd_caller.pc = "check"
    /\ nd_caller.pending = {}
    /\ nd_caller.in_flight = {}
    /\ DOMAIN nd_caller.done = {}
    /\ nd_accessible' = nd_caller.accessible
    /\ nd_caller' = [nd_caller EXCEPT !.pc = "idle"]
    /\ UNCHANGED <<nd_discovered, nd_scan_results, nd_running, nd_loop, cycle>>

\* NetworkDiscovery.start_monitoring
StartMonitoring ==
    /\ nd_caller.pc = "idle"
    /\ nd_loop.pc = "off"
    /\ nd_running' = TRUE
    /\ nd_loop' = [NDLoopOff EXCEPT !.pc = "test"]
    /\ UNCHANGED <<nd_discovered, nd_accessible, nd_scan_results, nd_caller,
                   cycle>>

\* NetworkDiscovery.stop_monitoring: the flag is cleared and
\* scan_thread.join(timeout=1) is called.
NDStopMonitoring ==
    /\ nd_caller.pc = "idle"
    /\ nd_running
    /\ nd_running' = FALSE
    /\ nd_caller' = [nd_caller EXCEPT !.pc = "join"]
    /\ UNCHANGED <<nd_discovered, nd_accessible, nd_scan_results, nd_loop,
                   cycle>>

\* join(timeout=1): the second of the timeout has passed.
NDJoinTimeout ==
    /\ nd_caller.pc = "join"
    /\ nd_caller' = [nd_caller EXCEPT !.pc = "join_elapsed"]
    /\ UNCHANGED <<nd_discovered, nd_accessible, nd_scan_results, nd_running,
                   nd_loop, cycle>>

\* NetworkDiscovery.stop_monitoring returns.
NDStopReturn ==
    /\ nd_caller.pc \in {"join", "join_elapsed"}
    /\ join_over(nd_loop.pc = "off", nd_caller.pc)
    /\ nd_caller' = [nd_caller EXCEPT !.pc = "idle"]
    /\ UNCHANGED <<nd_discovered, nd_accessible, nd_scan_results, nd_running,
                   nd_loop, cycle>>

\* _monitor_loop: while self.running, then list(self.accessible_servers.keys())
NDLoopTest ==
    /\ nd_loop.pc = "test"
    /\ nd_loop' =
          IF nd_running
          THEN [NDLoopOff EXCEPT !.pc = "tick",
                                 !.todo = DOMAIN nd_accessible,
                                 !.snapshot = DOMAIN nd_accessible]
          ELSE NDLoopOff
    /\ UNCHANGED <<nd_discovered, nd_accessible, nd_scan_results, nd_running,
                   nd_caller, cycle>>

\* _monitor_loop: get_server_status(ip) is called for the next address; it
\* returns None at once when the address is no longer accessible.
NDPollBegin(ip) ==
    /\ nd_loop.pc = "tick"
    /\ ip \in nd_loop.todo
    /\ IF ip \in DOMAIN nd_accessible
       THEN /\ cycle < MaxCycles
            /\ cycle' = cycle + 1
            /\ nd_loop' = [nd_loop EXCEPT !.pc = "collect", !.cur = ip,
                                          !.c = cycle + 1,
                                          !.todo = @ \ {ip}]
       ELSE /\ nd_loop' = [nd_loop EXCEPT !.todo = @ \ {ip},
                                          !.visited = @ \cup {ip}]
            /\ UNCHANGED cycle
    /\ UNCHANGED <<nd_discovered, nd_accessible, nd_scan_results, nd_running,
                   nd_caller>>

\* _monitor_loop: `if status: self.scan_results[ip] = status`
monitor_store(results, ip, status_ok, c) ==
    IF status_ok THEN Put(results, ip, StatusDict(ip, c)) ELSE results

\* _monitor_loop: get_server_status returned a status (status_ok) or None.
NDPollEnd(status_ok) ==
    /\ nd_loop.pc = "collect"
    /\ nd_scan_results' =
          monitor_store(nd_scan_results, nd_loop.cur, status_ok, nd_loop.c)
    /\ nd_loop' = [nd_loop EXCEPT !.pc = "tick", !.cur = NoHost, !.c = 0,
                                  !.overdue = FALSE,
                                  !.visited = @ \cup {nd_loop.cur}]
    /\ UNCHANGED <<nd_discovered, nd_accessible, nd_running, nd_caller, cycle>>

\* The poll interval, counted from the start of the tick, runs out while
\* get_server_status is still at work for nd_loop.cur: the loop sleeps only
\* after the for loop.
NDIntervalElapses ==
    /\ nd_loop.pc = "collect"
    /\ ~nd_loop.overdue
    /\ nd_loop' = [nd_loop EXCEPT !.overdue = TRUE]
    /\ UNCHANGED <<nd_discovered, nd_accessible, nd_scan_results, nd_running,
                   nd_caller, cycle>>

\* _monitor_loop: the for loop is over; sleep, then the while test.
NDTickEnd ==
    /\ nd_loop.pc = "tick"
    /\ nd_loop.todo = {}
    /\ nd_loop' = [nd_loop EXCEPT !.pc = "test"]
    /\ UNCHANGED <<nd_discovered, nd_accessible, nd_scan_results, nd_running,
                   nd_caller, cycle>>

NDNext ==
    \/ \E found \in SUBSET Hosts : DiscoverNetwork(found)
    \/ CheckBegin
    \/ \E ip \in Hosts : CheckStart(ip)
    \/ \E ip \in Hosts, outcome \in {"ok", "fail", "raise"} : CheckFinish(ip, outcome)
    \/ \E ip \in Hosts : CheckResult(ip)
    \/ CheckEnd
    \/ StartMonitoring
    \/ NDStopMonitoring
    \/ NDJoinTimeout
    \/ NDStopReturn
    \/ NDLoopTest
    \/ \E ip \in Hosts : NDPollBegin(ip)
    \/ \E status_ok \in BOOLEAN : NDPollEnd(status_ok)
    \/ NDTickEnd
    \/ NDIntervalElapses

\* ------------------------------------------------------------------- Spec
vars == <<program, cycle, sdvars, ndvars, colvars, scanvars, outvars>>

Init ==
    \/ DashboardInit
    \/ NDInit

Next ==
    \/ /\ program = "web_dashboard"
       /\ DashboardNext
       /\ UNCHANGED <<program, ndvars, colvars, scanvars, outvars>>
    \/ /\ program = "network_monitor"
       /\ NDNext
       /\ UNCHANGED <<program, sdvars, colvars, scanvars, outvars>>

Spec == Init /\ [][Next]_vars

\* ------------------------------------------- one collection, in detail
\* A command output is what output.strip().split() gives: a sequence of
\* tokens.  A token is a number ("num"), a number followed by a percent sign
\* ("pct"), other text ("word"), or other text followed by a percent sign
\* ("wordpct").  Numbers are integers here.
Num(n) == [kind |-> "num", val |-> n]
Pct(n) == [kind |-> "pct", val |-> n]
Word == [kind |-> "word", val |-> 0]
WordPct == [kind |-> "wordpct", val |-> 0]

\* The value of a parse, or the exception it raised.
Val(v) == [raised |-> FALSE, val |-> v]
Raised == [raised |-> TRUE, val |-> 0]

\* float(token), int(token)
ToNumber(tok) ==
    IF tok.kind = "num" THEN Val(tok.val) ELSE Raised

\* token.endswith('%')
EndsWithPercent(tok) ==
    tok.kind \in {"pct", "wordpct"}

\* int(token.rstrip('%'))
StripPercentToInt(tok) ==
    IF tok.kind \in {"num", "pct"} THEN Val(tok.val) ELSE Raised

\* The lines a healthy host prints.
MaxSample == 50

MpstatLine(idle) ==
    <<Word, Word, Num(1), Num(0), Num(1), Num(0), Num(0), Num(0), Num(0),
      Num(0), Num(0), idle>>

FreeLine(total, used) ==
    <<Word, total, used, Num(10)>>

DfLine(percent) ==
    <<Word, Word, Word, Word, percent, Word>>

PsLine(pid, cpu) ==
    <<Word, pid, cpu, Num(1), Word, Word, Word, Word, Word, Word, Word>>

\* The outputs a collection is tried on: for every command the empty output,
\* an output with too few fields, a well-formed one, and well-formed ones
\* with a field that is not a number.
CpuOutputs ==
    {<<>>, <<Num(MaxSample)>>, <<Word>>, MpstatLine(Num(MaxSample)),
     MpstatLine(Word)}

MemOutputs ==
    {<<>>, <<Word, Num(MaxSample), Num(20)>>,
     FreeLine(Num(MaxSample), Num(20)), FreeLine(Num(MaxSample), Word),
     FreeLine(Num(0), Num(0))}

DiskOutputs ==
    {<<>>, <<Word, Word, Word, Word>>, DfLine(Pct(30)), DfLine(Num(30)),
     DfLine(WordPct)}

LoadOutputs ==
    {<<>>, <<Num(2)>>, <<Word>>, <<Num(2), Num(3), Num(4)>>}

PsOutputs ==
    {<<>>, <<PsLine(Num(7), Num(5))>>, <<<<Word, Num(7), Num(5)>>>>,
     <<PsLine(Word, Num(5))>>, <<PsLine(Num(7), Num(5)), PsLine(Num(8), Word)>>}

\* ---- ServerDiscovery._get_system_info, block by block
\* CPU: 100 - idle of the twelfth field
sd_cpu(out) ==
    IF Len(out) = 0 THEN Val(0)
    ELSE IF Len(out) >= 12
         THEN LET idle == ToNumber(out[12])
              IN IF idle.raised THEN Raised ELSE Val(100 - idle.val)
         ELSE Val(0)

\* memory: memory_info, {} when nothing was parsed
sd_memory(out) ==
    IF Len(out) = 0 THEN Val(EmptyDict)
    ELSE IF Len(out) >= 4
         THEN LET total == ToNumber(out[2])
                  used == ToNumber(out[3])
                  free == ToNumber(out[4])
              IN IF total.raised \/ used.raised \/ free.raised
                 THEN Raised
                 ELSE Val([total_mb |-> total.val, used_mb |-> used.val,
                           free_mb |-> free.val,
                           percent |-> IF total.val > 0
                                       THEN (used.val * 100) \div total.val
                                       ELSE 0])
         ELSE Val(EmptyDict)

\* disk: disk_info, {} when nothing was parsed
sd_disk(out) ==
    IF Len(out) = 0 THEN Val(EmptyDict)
    ELSE IF Len(out) >= 5
         THEN LET percent == IF EndsWithPercent(out[5])
                             THEN StripPercentToInt(out[5])
                             ELSE Val(0)
              IN IF percent.raised THEN Raised
                 ELSE Val([percent |-> percent.val])
         ELSE Val(EmptyDict)

\* processes: lines that do not parse are skipped
sd_process_line(line) ==
    IF Len(line) >= 11
    THEN LET pid == ToNumber(line[2])
             cpu == ToNumber(line[3])
             mem == ToNumber(line[4])
         IN IF pid.raised \/ cpu.raised \/ mem.raised
            THEN <<>>
            ELSE <<[pid |-> pid.val, cpu_percent |-> cpu.val]>>
    ELSE <<>>

RECURSIVE sd_processes(_)
sd_processes(lines) ==
    IF lines = <<>> THEN <<>>
    ELSE sd_process_line(Head(lines)) \o sd_processes(Tail(lines))

\* load average: the first field
sd_load(out) ==
    IF Len(out) = 0 THEN Val(0) ELSE ToNumber(out[1])

\* _get_system_info as a whole.  channel = FALSE: a command did not return
\* within its timeout (subprocess.TimeoutExpired).
get_system_info(o) ==
    LET cpu == sd_cpu(o.cpu)
        mem == sd_memory(o.mem)
        disk == sd_disk(o.disk)
        load == sd_load(o.load)
    IN IF ~o.channel \/ cpu.raised \/ mem.raised \/ disk.raised \/ load.raised
       THEN [returned |-> TRUE,
             cpu_percent |-> 0, memory_percent |-> 0, disk_percent |-> 0,
             load_avg |-> 0, processes |-> <<>>, error |-> TRUE]
       ELSE [returned |-> TRUE,
             cpu_percent |-> cpu.val,
             memory_percent |-> Get(mem.val, "percent", 0),
             disk_percent |-> Get(disk.val, "percent", 0),
             load_avg |-> load.val,
             memory_info |-> mem.val,
             disk_info |-> disk.val,
             processes |-> sd_processes(o.ps)]

\* ---- NetworkDiscovery.get_server_status, getter by getter
\* _get_remote_cpu_usage: float of the whole output
_get_remote_cpu_usage(out) ==
    IF Len(out) = 0 THEN 0
    ELSE IF Len(out) = 1 /\ ~ToNumber(out[1]).raised THEN ToNumber(out[1]).val
    ELSE 0

\* _get_remote_memory_usage: the percent entry
_get_remote_memory_usage(out) ==
    IF Len(out) >= 4
    THEN LET total == ToNumber(out[2])
             used == ToNumber(out[3])
             free == ToNumber(out[4])
         IN IF total.raised \/ used.raised \/ free.raised THEN 0
            ELSE IF total.val > 0 THEN (used.val * 100) \div total.val ELSE 0
    ELSE 0

\* _get_remote_disk_usage: the percent entry
_get_remote_disk_usage(out) ==
    IF Len(out) >= 5 /\ ~StripPercentToInt(out[5]).raised
    THEN StripPercentToInt(out[5]).val
    ELSE 0

\* _get_remote_load_average: the first of the three numbers
_get_remote_load_average(out) ==
    IF /\ Len(out) >= 3
       /\ \A i \in 1..3 : ~ToNumber(out[i]).raised
    THEN ToNumber(out[1]).val
    ELSE 0

\* get_server_status as a whole.  channel = FALSE: ssh.connect raised.
get_server_status(o) ==
    IF ~o.channel
    THEN [returned |-> TRUE, status |-> FALSE]
    ELSE [returned |-> TRUE, status |-> TRUE,
          cpu_usage |-> _get_remote_cpu_usage(o.cpu),
          memory_usage |-> _get_remote_memory_usage(o.mem),
          disk_usage |-> _get_remote_disk_usage(o.disk),
          load_average |-> _get_remote_load_average(o.load)]

\* The program "collect": one host prints cmd_outputs, and each of the two
\* collectors is run on it once.
CollectInit ==
    /\ program = "collect"
    /\ cycle = 0
    /\ SDIdle
    /\ NDIdle
    /\ ScanIdle
    /\ OutIdle
    /\ cmd_outputs \in [cpu : CpuOutputs, mem : MemOutputs, disk : DiskOutputs,
                        load : LoadOutputs, ps : PsOutputs, channel : BOOLEAN]
    /\ sd_result = NoResult
    /\ nd_result = NoResult

GetSystemInfo ==
    /\ ~sd_result.returned
    /\ sd_result' = get_system_info(cmd_outputs)
    /\ UNCHANGED <<cmd_outputs, nd_result>>

GetServerStatus ==
    /\ ~nd_result.returned
    /\ nd_result' = get_server_status(cmd_outputs)
    /\ UNCHANGED <<cmd_outputs, sd_result>>

CollectNext ==
    /\ program = "collect"
    /\ \/ GetSystemInfo
       \/ GetServerStatus
    /\ UNCHANGED <<program, cycle, sdvars, ndvars, scanvars, outvars>>

SpecCollect == CollectInit /\ [][CollectNext]_vars

\* ------------------------------------------------- one sweep, in detail
\* scan_network() over self.network_ranges, followed probe by probe.  An
\* address is <<r, i>>: range r, position i in it; position 0 is the network
\* address of the range and position RangeSize + 1 its broadcast address.
\* ThreadCap stands for the 50 of `if len(threads) >= 50`.
RangeSize == 3
ThreadCap == 2

Ranges == 1..NumRanges

\* ipaddress.IPv4Network(network).hosts()
RangeHosts(r) == {<<r, i>> : i \in 1..RangeSize}

AllRangeHosts == UNION {RangeHosts(r) : r \in Ranges}

NetworkAddress(r) == <<r, 0>>

BroadcastAddress(r) == <<r, RangeSize + 1>>

\* The address of the machine the program runs on; it lies in the first range.
LocalAddress == <<1, 1>>

\* The program "scan": a ServerDiscovery just constructed; the hosts that
\* answer a ping are any of the addresses, the local machine among them.
ScanInit ==
    /\ program = "scan"
    /\ cycle = 0
    /\ SDIdle
    /\ NDIdle
    /\ ColIdle
    /\ scanning = FALSE
    /\ sweep = IdleSweep
    /\ reachable \in {alive \in SUBSET AllRangeHosts : LocalAddress \in alive}
    /\ backlog = {}

\* scan_network: self.scanning = True; discovered = {}; the first range.
ScanBegin ==
    /\ sweep.pc = "idle"
    /\ scanning' = TRUE
    /\ sweep' = [IdleSweep EXCEPT !.pc = "loop", !.r = 1, !.i = 1]
    /\ UNCHANGED <<discovered_servers, response, reachable, backlog>>

may_dispatch_always(flag) ==
    TRUE

\* scan_network: `if not self.scanning: break`
may_dispatch(flag) ==
    flag

batch_full_never(threads) ==
    FALSE

\* scan_network: `if len(threads) >= 50`
batch_full(threads) ==
    Cardinality(threads) >= ThreadCap

\* scan_network: the loop body for the next address of the range: the flag
\* is tested, a thread is started, and a full batch is joined.
ScanDispatch ==
    /\ sweep.pc = "loop"
    /\ sweep.i <= RangeSize
    /\ may_dispatch(scanning)
    /\ LET ip == <<sweep.r, sweep.i>>
       IN sweep' = [sweep EXCEPT
                       !.i = @ + 1,
                       !.threads = @ \cup {ip},
                       !.in_flight = @ \cup {ip},
                       !.dispatched = @ \cup {ip},
                       !.pc = IF batch_full(sweep.threads \cup {ip})
                              THEN "join" ELSE "loop"]
    /\ UNCHANGED <<scanning, discovered_servers, response, reachable, backlog>>

\* scan_network: the flag was cleared, or the range is exhausted: the loop
\* over the addresses of the range is left.
ScanLeaveLoop ==
    /\ sweep.pc = "loop"
    /\ \/ sweep.i > RangeSize
       \/ ~may_dispatch(scanning)
    /\ sweep' = [sweep EXCEPT !.pc = "drain"]
    /\ UNCHANGED <<scanning, discovered_servers, response, reachable, backlog>>

scan_ip_overwrites(results, ip, alive) ==
    IF alive THEN {ip} ELSE results

\* scan_ip: the thread body, once _ping_host returned.
scan_ip(results, ip, alive) ==
    IF alive THEN results \cup {ip} ELSE results

\* One probe thread ends.
ThreadFinish(ip) ==
    /\ ip \in sweep.in_flight
    /\ sweep' = [sweep EXCEPT
                    !.in_flight = @ \ {ip},
                    !.results = scan_ip(@, ip, ip \in reachable)]
    /\ UNCHANGED <<scanning, discovered_servers, response, reachable, backlog>>

\* scan_network: `for t in threads: t.join()` of a full batch.
ScanJoin ==
    /\ sweep.pc = "join"
    /\ sweep.in_flight = {}
    /\ sweep' = [sweep EXCEPT !.pc = "loop", !.threads = {}]
    /\ UNCHANGED <<scanning, discovered_servers, response, reachable, backlog>>

\* scan_network: the remaining threads are joined, discovered.update(results),
\* and the next range begins.
ScanNextRange ==
    /\ sweep.pc = "drain"
    /\ sweep.in_flight = {}
    /\ sweep.r < NumRanges
    /\ sweep' = [sweep EXCEPT !.pc = "loop", !.r = @ + 1, !.i = 1,
                              !.threads = {}, !.results = {},
                              !.discovered = @ \cup sweep.results]
    /\ UNCHANGED <<scanning, discovered_servers, response, reachable, backlog>>

\* scan_network: after the last range: self.scanning = False,
\* self.discovered_servers.update(discovered), return discovered.
ScanReturn ==
    /\ sweep.pc = "drain"
    /\ sweep.in_flight = {}
    /\ sweep.r = NumRanges
    /\ LET discovered == sweep.discovered \cup sweep.results
       IN /\ sweep' = [sweep EXCEPT !.pc = "idle", !.threads = {},
                                    !.results = {},
                                    !.discovered = discovered,
                                    !.returned = discovered]
          /\ discovered_servers' =
                Update(discovered_servers, [ip \in discovered |-> ScanRecord])
    /\ scanning' = FALSE
    /\ response' = [op |-> "scan", ip |-> NoHost, success |-> TRUE]
    /\ UNCHANGED <<reachable, backlog>>

\* stop_scanning(), called from another thread.
StopScanning ==
    /\ scanning' = FALSE
    /\ sweep' = [sweep EXCEPT !.stopped = (@ \/ sweep.pc # "idle")]
    /\ UNCHANGED <<discovered_servers, response, reachable, backlog>>

ScanNext ==
    /\ program = "scan"
    /\ \/ ScanBegin
       \/ ScanDispatch
       \/ ScanLeaveLoop
       \/ \E ip \in AllRangeHosts : ThreadFinish(ip)
       \/ ScanJoin
       \/ ScanNextRange
       \/ ScanReturn
       \/ StopScanning
    /\ UNCHANGED <<program, cycle, connected_servers, config_file,
                   current_server, running, caller, tick, ndvars, colvars,
                   outvars>>

\* ---- the dashboard's scan and stop-scan requests
\* The program "dashboard_scan": the dashboard with nothing discovered; the
\* hosts of the first range that accept a key-based login are any of them.
QuickScanInit ==
    /\ program = "dashboard_scan"
    /\ cycle = 0
    /\ SDIdle
    /\ NDIdle
    /\ ColIdle
    /\ scanning = FALSE
    /\ sweep = IdleSweep
    /\ reachable \in {alive \in SUBSET RangeHosts(1) : LocalAddress \in alive}
    /\ backlog = {}

\* quick_scan: range(start_ip, min(start_ip + max_ips, 255)); position
\* RangeSize + 1 stands for 255.
quick_scan_last_unclamped(start_ip, max_ips) ==
    start_ip + max_ips

quick_scan_last(start_ip, max_ips) ==
    IF start_ip + max_ips < RangeSize + 1 THEN start_ip + max_ips
    ELSE RangeSize + 1

\* handle_scan_network reads start_ip and max_ips from the request and
\* calls quick_scan.
HandleScanBegin(start_ip, max_ips) ==
    /\ sweep.pc = "idle"
    /\ sweep' = [IdleSweep EXCEPT !.pc = "quick", !.r = 1, !.i = start_ip,
                                  !.last = quick_scan_last(start_ip, max_ips),
                                  !.start_ip = start_ip, !.max_ips = max_ips]
    /\ UNCHANGED <<scanning, discovered_servers, response, reachable, backlog>>

\* quick_scan: the loop body for one address: the current machine is
\* skipped, any other address is tried with ssh.
QuickScanProbe ==
    /\ sweep.pc = "quick"
    /\ sweep.i < sweep.last
    /\ LET ip == <<sweep.r, sweep.i>>
       IN sweep' =
             IF ip = LocalAddress
             THEN [sweep EXCEPT !.i = @ + 1]
             ELSE [sweep EXCEPT !.i = @ + 1,
                                !.dispatched = @ \cup {ip},
                                !.results = scan_ip(@, ip, ip \in reachable)]
    /\ UNCHANGED <<scanning, discovered_servers, response, reachable, backlog>>

\* quick_scan returns; handle_scan_network stores a record for every host
\* returned and sends the response.
HandleScanEnd ==
    /\ sweep.pc = "quick"
    /\ sweep.i >= sweep.last
    /\ sweep' = [sweep EXCEPT !.pc = "idle", !.returned = sweep.results,
                              !.results = {}]
    /\ discovered_servers' =
          Update(discovered_servers,
                 [ip \in sweep.results |-> QuickScanRecord(ip)])
    /\ response' = [op |-> "scan", ip |-> NoHost, success |-> TRUE]
    /\ UNCHANGED <<scanning, reachable, backlog>>

\* A client sends POST /api/stop-scan; the server is single-threaded, the
\* request waits until the thread is free.
StopScanRequest ==
    /\ "stop-scan" \notin backlog
    /\ backlog' = backlog \cup {"stop-scan"}
    /\ sweep' = [sweep EXCEPT !.stopped = (@ \/ sweep.pc # "idle")]
    /\ UNCHANGED <<scanning, discovered_servers, response, reachable>>

\* handle_stop_scan: stop_scanning() and the response.
HandleStopScan ==
    /\ sweep.pc = "idle"
    /\ "stop-scan" \in backlog
    /\ backlog' = backlog \ {"stop-scan"}
    /\ scanning' = FALSE
    /\ response' = [op |-> "stop-scan", ip |-> NoHost, success |-> TRUE]
    /\ UNCHANGED <<sweep, discovered_servers, reachable>>

QuickScanNext ==
    /\ program = "dashboard_scan"
    /\ \/ \E start_ip \in 0..RangeSize, max_ips \in 1..(RangeSize + 1) :
             HandleScanBegin(start_ip, max_ips)
       \/ QuickScanProbe
       \/ HandleScanEnd
       \/ StopScanRequest
       \/ HandleStopScan
    /\ UNCHANGED <<program, cycle, connected_servers, config_file,
                   current_server, running, caller, tick, ndvars, colvars,
                   outvars>>

SweepInit ==
    \/ ScanInit
    \/ QuickScanInit

SweepNext ==
    \/ ScanNext
    \/ QuickScanNext

SpecScan == SweepInit /\ [][SweepNext]_vars

\* ---- the two concurrent probers: scan_network and the accessibility check
ProbesInit ==
    \/ ScanInit
    \/ NDInit

ProbesNext ==
    \/ ScanNext
    \/ /\ program = "network_monitor"
       /\ NDNext
       /\ UNCHANGED <<program, sdvars, colvars, scanvars, outvars>>

SpecProbes == ProbesInit /\ [][ProbesNext]_vars

\* ------------------------------------------------- the other entry points
\* The dashboard with the server selector in use: handle_switch_server runs
\* update_data() on the request thread, next to the monitor thread.
\* ---- ResourceManager: monitoring of the local machine
\* ResourceManager.__init__: not running, no monitor thread.
RMInit ==
    /\ program = "resource_manager"
    /\ cycle = 0
    /\ config_file = NoFile
    /\ discovered_servers = EmptyDict
    /\ connected_servers = EmptyDict
    /\ current_server = NoHost
    /\ running = FALSE
    /\ caller = IdleCaller
    /\ tick = [p \in Pollers |-> [IdleTick EXCEPT !.pc = "off"]]
    /\ response = NoResponse
    /\ NDIdle
    /\ ColIdle
    /\ ScanIdle

\* ResourceManager.start_monitoring, called when no loop is running.
RMStartMonitoring ==
    /\ caller.pc = "idle"
    /\ tick["monitor"].pc = "off"
    /\ running' = TRUE
    /\ tick' = [tick EXCEPT !["monitor"].pc = "idle"]
    /\ UNCHANGED caller

\* ResourceManager.stop_monitoring: the flag is cleared and
\* monitor_thread.join() is called.
RMStopMonitoring ==
    /\ caller.pc = "idle"
    /\ running
    /\ running' = FALSE
    /\ caller' = [IdleCaller EXCEPT !.pc = "join"]
    /\ UNCHANGED tick

\* monitor_thread.join() returns: the thread has ended.
RMStopReturn ==
    /\ caller.pc = "join"
    /\ tick["monitor"].pc = "off"
    /\ caller' = IdleCaller
    /\ UNCHANGED <<running, tick>>

\* ResourceManager._monitor_loop: the while test.
RMLoopTest ==
    /\ tick["monitor"].pc = "idle"
    /\ tick' = [tick EXCEPT !["monitor"].pc =
                                IF running THEN "collect" ELSE "off"]
    /\ UNCHANGED <<running, caller>>

\* ResourceManager._monitor_loop: the body: metrics collected and alerts
\* sent, or an exception caught; then the sleep.
RMCollect ==
    /\ tick["monitor"].pc = "collect"
    /\ tick' = [tick EXCEPT !["monitor"].pc = "idle"]
    /\ UNCHANGED <<running, caller>>

RMNext ==
    /\ program = "resource_manager"
    /\ \/ RMStartMonitoring
       \/ RMStopMonitoring
       \/ RMStopReturn
       \/ RMLoopTest
       \/ RMCollect
    /\ UNCHANGED <<program, cycle, discovered_servers, connected_servers,
                   config_file, current_server, response, ndvars, colvars,
                   scanvars, outvars>>

\* ---- the polling loops and their stop
\* A step of a polling loop's own thread.
LoopStep ==
    \/ /\ program = "web_dashboard"
       /\ \/ MonitorTick
          \/ \E raised \in BOOLEAN : PollNext("monitor", raised)
          \/ PollStore("monitor")
          \/ MonitorExit
       /\ UNCHANGED <<program, ndvars, colvars, scanvars, outvars>>
    \/ /\ program = "network_monitor"
       /\ \/ NDLoopTest
          \/ \E ip \in Hosts : NDPollBegin(ip)
          \/ \E status_ok \in BOOLEAN : NDPollEnd(status_ok)
          \/ NDTickEnd
       /\ UNCHANGED <<program, sdvars, colvars, scanvars, outvars>>
    \/ /\ RMNext
       /\ tick' # tick

StopInit ==
    \/ DashboardInit
    \/ NDInit
    \/ RMInit

StopNext ==
    \/ Next
    \/ RMNext

\* The loop threads are scheduled: a loop that can take a step takes one.
SpecStop == StopInit /\ [][StopNext]_vars /\ WF_vars(LoopStep)

SwitchNext ==
    \/ Next
    \/ /\ \E ip \in Hosts \cup {NoHost} : HandleSwitchServer(ip)
       /\ UNCHANGED <<program, ndvars, colvars, scanvars, outvars>>

SpecSwitch == DashboardInit /\ [][SwitchNext]_vars

\* ---- the dashboard's switch of the active view
\* The switch requests with the refresh they run on the request thread, and
\* the monitor thread's ticks.
ViewNext ==
    /\ program = "web_dashboard"
    /\ \/ \E ip \in Hosts : HandleSwitchServer(ip)
       \/ MonitorTick
       \/ \E p \in Pollers, raised \in BOOLEAN : PollNext(p, raised)
       \/ \E p \in Pollers : PollStore(p)
    /\ UNCHANGED <<program, ndvars, colvars, scanvars, outvars>>

SpecView == DashboardInit /\ [][ViewNext]_vars

\* ServerDiscovery used from one thread, as test_network_scanner.py does.
LibraryInit ==
    /\ program = "library"
    /\ cycle = 0
    /\ SDIdle
    /\ NDIdle
    /\ ColIdle
    /\ ScanIdle

LibraryNext ==
    /\ program = "library"
    /\ \/ \E found \in SUBSET Hosts : ScanNetwork(found)
       \/ \E ip \in Hosts, password \in Passwords, probe_ok, srv_raised, sys_raised \in BOOLEAN :
             ConnectToServer(ip, password, probe_ok, srv_raised, sys_raised)
       \/ \E ip \in Hosts : DisconnectFromServer(ip)
       \/ \E io_ok \in BOOLEAN : SaveConfiguration(io_ok)
       \/ LoadConfiguration
       \/ GetConnectedServersInfo
       \/ \E raised \in BOOLEAN : PollNext("caller", raised)
       \/ PollStore("caller")
    /\ UNCHANGED <<program, ndvars, colvars, scanvars, outvars>>

SpecLibrary == LibraryInit /\ [][LibraryNext]_vars

\* ---- saving and loading the registry
\* ServerDiscovery used from one thread as test_server_discovery.py does:
\* the registry is filled by sweeps, connects and disconnects, saved, and
\* loaded again.  The run is followed up to its first save and the loads
\* and saves after it.
RoundTripNext ==
    /\ program = "library"
    /\ \/ /\ ~config_file.exists
          /\ \E found \in SUBSET Hosts : ScanNetwork(found)
       \/ /\ ~config_file.exists
          /\ \E ip \in Hosts, password \in Passwords, probe_ok, srv_raised, sys_raised \in BOOLEAN :
                ConnectToServer(ip, password, probe_ok, srv_raised, sys_raised)
       \/ /\ ~config_file.exists
          /\ \E ip \in Hosts : DisconnectFromServer(ip)
       \/ \E io_ok \in BOOLEAN : SaveConfiguration(io_ok)
       \/ LoadConfiguration
    /\ UNCHANGED <<program, ndvars, colvars, scanvars, outvars>>

SpecRoundTrip == LibraryInit /\ [][RoundTripNext]_vars

\* ---- start_monitoring and stop_monitoring called again and again
\* The program "monitor_restart": a NetworkDiscovery whose start_monitoring
\* and stop_monitoring are called in any order.  Every start_monitoring
\* creates a thread; MaxLoops bounds the threads created.  Here nd_loop is
\*   scan_thread  the thread self.scan_thread refers to (0: None)
\*   threads      per thread the position of its _monitor_loop: "unborn",
\*                "test" (at the while test), "tick" (in the for loop),
\*                "sleep" (in time.sleep), "ended"
\* and a tick is counted by cycle.
MaxLoops == 2

LoopThreads == 1..MaxLoops

RestartInit ==
    /\ program = "monitor_restart"
    /\ cycle = 0
    /\ SDIdle
    /\ ColIdle
    /\ ScanIdle
    /\ nd_discovered = EmptyDict
    /\ nd_accessible = EmptyDict
    /\ nd_scan_results = EmptyDict
    /\ nd_running = FALSE
    /\ nd_caller = NDIdleCaller
    /\ nd_loop = [scan_thread |-> 0,
                  threads |-> [t \in LoopThreads |-> "unborn"]]

\* The threads whose _monitor_loop has been entered and not left.
LiveLoops ==
    {t \in LoopThreads : nd_loop.threads[t] \in {"test", "tick", "sleep"}}

\* start_monitoring: the flag is set, a thread is created, bound to
\* self.scan_thread and started.
RestartStart(t) ==
    /\ nd_caller.pc = "idle"
    /\ nd_loop.threads[t] = "unborn"
    /\ \A u \in LoopThreads : u < t => nd_loop.threads[u] # "unborn"
    /\ nd_running' = TRUE
    /\ nd_loop' = [nd_loop EXCEPT !.scan_thread = t, !.threads[t] = "test"]
    /\ UNCHANGED <<nd_caller, cycle>>

\* stop_monitoring: the flag is cleared; `if self.scan_thread:` the thread is
\* joined with a timeout of one second.
RestartStop ==
    /\ nd_caller.pc = "idle"
    /\ nd_running' = FALSE
    /\ nd_caller' = [nd_caller EXCEPT !.pc =
                        IF nd_loop.scan_thread = 0 THEN "idle" ELSE "join"]
    /\ UNCHANGED <<nd_loop, cycle>>

\* join(timeout=1): the second of the timeout has passed.
RestartJoinTimeout ==
    /\ nd_caller.pc = "join"
    /\ nd_caller' = [nd_caller EXCEPT !.pc = "join_elapsed"]
    /\ UNCHANGED <<nd_running, nd_loop, cycle>>

\* stop_monitoring returns.
RestartStopReturn ==
    /\ nd_caller.pc \in {"join", "join_elapsed"}
    /\ join_over(nd_loop.threads[nd_loop.scan_thread] = "ended", nd_caller.pc)
    /\ nd_caller' = [nd_caller EXCEPT !.pc = "idle"]
    /\ UNCHANGED <<nd_running, nd_loop, cycle>>

\* _monitor_loop of thread t: `while self.running`
RestartLoopTest(t) ==
    /\ nd_loop.threads[t] = "test"
    /\ nd_loop' = [nd_loop EXCEPT !.threads[t] =
                                    IF nd_running THEN "tick" ELSE "ended"]
    /\ UNCHANGED <<nd_running, nd_caller, cycle>>

\* _monitor_loop of thread t: the for loop over the accessible servers.
RestartLoopTick(t) ==
    /\ nd_loop.threads[t] = "tick"
    /\ cycle < MaxCycles
    /\ cycle' = cycle + 1
    /\ nd_loop' = [nd_loop EXCEPT !.threads[t] = "sleep"]
    /\ UNCHANGED <<nd_running, nd_caller>>

\* _monitor_loop of thread t: time.sleep(interval) returns.
RestartLoopWake(t) ==
    /\ nd_loop.threads[t] = "sleep"
    /\ nd_loop' = [nd_loop EXCEPT !.threads[t] = "test"]
    /\ UNCHANGED <<nd_running, nd_caller, cycle>>

RestartNext ==
    /\ program = "monitor_restart"
    /\ \/ \E t \in LoopThreads : RestartStart(t)
       \/ RestartStop
       \/ RestartJoinTimeout
       \/ RestartStopReturn
       \/ \E t \in LoopThreads : RestartLoopTest(t)
       \/ \E t \in LoopThreads : RestartLoopTick(t)
       \/ \E t \in LoopThreads : RestartLoopWake(t)
    /\ UNCHANGED <<program, sdvars, nd_discovered, nd_accessible,
                   nd_scan_results, colvars, scanvars, outvars>>

SpecRestart == RestartInit /\ [][RestartNext]_vars

\* ---- two scan_network calls at the same time
\* The program "two_scans": two threads call scan_network(network_range) on
\* the same ServerDiscovery, each for one range.  Here sweep holds one
\* record per calling thread.
ScanCalls == {1, 2}

TwoScansInit ==
    /\ program = "two_scans"
    /\ cycle = 0
    /\ SDIdle
    /\ NDIdle
    /\ ColIdle
    /\ scanning = FALSE
    /\ sweep = [s \in ScanCalls |-> IdleSweep]
    /\ reachable \in {alive \in SUBSET AllRangeHosts : LocalAddress \in alive}
    /\ backlog = {}

\* get_status_summary()
get_status_summary ==
    [scanning |-> scanning,
     discovered_count |-> Cardinality(DOMAIN discovered_servers),
     connected_count |-> Cardinality(DOMAIN connected_servers),
     network_ranges |-> network_ranges,
     discovered_servers |-> DOMAIN discovered_servers,
     connected_servers |-> DOMAIN connected_servers]

\* scan_network(network_range) of thread s: ranges = [network_range];
\* self.scanning = True; discovered = {}.
TwoScanBegin(s, r) ==
    /\ sweep[s].pc = "idle"
    /\ scanning' = TRUE
    /\ sweep' = [sweep EXCEPT ![s] =
                    [IdleSweep EXCEPT !.pc = "loop", !.r = r, !.i = 1]]
    /\ UNCHANGED <<discovered_servers, response, reachable, backlog>>

\* scan_network of thread s: the loop body for the next address.
TwoScanDispatch(s) ==
    /\ sweep[s].pc = "loop"
    /\ sweep[s].i <= RangeSize
    /\ may_dispatch(scanning)
    /\ LET ip == <<sweep[s].r, sweep[s].i>>
       IN sweep' = [sweep EXCEPT
                       ![s].i = @ + 1,
                       ![s].threads = @ \cup {ip},
                       ![s].in_flight = @ \cup {ip},
                       ![s].dispatched = @ \cup {ip},
                       ![s].pc = IF batch_full(sweep[s].threads \cup {ip})
                                 THEN "join" ELSE "loop"]
    /\ UNCHANGED <<scanning, discovered_servers, response, reachable, backlog>>

\* scan_network of thread s: the flag is found cleared, or the range is
\* exhausted.
TwoScanLeaveLoop(s) ==
    /\ sweep[s].pc = "loop"
    /\ \/ sweep[s].i > RangeSize
       \/ ~may_dispatch(scanning)
    /\ sweep' = [sweep EXCEPT ![s].pc = "drain",
                              ![s].stopped = (sweep[s].i <= RangeSize)]
    /\ UNCHANGED <<scanning, discovered_servers, response, reachable, backlog>>

\* One probe thread of the scan of thread s ends.
TwoScanThreadFinish(s, ip) ==
    /\ ip \in sweep[s].in_flight
    /\ sweep' = [sweep EXCEPT
                    ![s].in_flight = @ \ {ip},
                    ![s].results = scan_ip(@, ip, ip \in reachable)]
    /\ UNCHANGED <<scanning, discovered_servers, response, reachable, backlog>>

\* scan_network of thread s: a full batch is joined.
TwoScanJoin(s) ==
    /\ sweep[s].pc = "join"
    /\ sweep[s].in_flight = {}
    /\ sweep' = [sweep EXCEPT ![s].pc = "loop", ![s].threads = {}]
    /\ UNCHANGED <<scanning, discovered_servers, response, reachable, backlog>>

\* scan_network of thread s: the remaining threads are joined,
\* discovered.update(results), self.scanning = False,
\* self.discovered_servers.update(discovered), return discovered.
TwoScanReturn(s) ==
    /\ sweep[s].pc = "drain"
    /\ sweep[s].in_flight = {}
    /\ sweep' = [sweep EXCEPT ![s].pc = "idle", ![s].threads = {},
                              ![s].results = {},
                              ![s].discovered = sweep[s].results,
                              ![s].returned = sweep[s].results]
    /\ discovered_servers' =
          Update(discovered_servers,
                 [ip \in sweep[s].results |-> ScanRecord])
    /\ scanning' = FALSE
    /\ response' = [op |-> "scan", ip |-> NoHost, success |-> TRUE]
    /\ UNCHANGED <<reachable, backlog>>

TwoScansNext ==
    /\ program = "two_scans"
    /\ \/ \E s \in ScanCalls, r \in Ranges : TwoScanBegin(s, r)
       \/ \E s \in ScanCalls : TwoScanDispatch(s)
       \/ \E s \in ScanCalls : TwoScanLeaveLoop(s)
       \/ \E s \in ScanCalls, ip \in AllRangeHosts : TwoScanThreadFinish(s, ip)
       \/ \E s \in ScanCalls : TwoScanJoin(s)
       \/ \E s \in ScanCalls : TwoScanReturn(s)
    /\ UNCHANGED <<program, cycle, connected_servers, config_file,
                   current_server, running, caller, tick, ndvars, colvars,
                   outvars>>

SpecTwoScans == TwoScansInit /\ [][TwoScansNext]_vars

\* ---- a sweep followed by connects
\* ServerDiscovery just constructed; `reachable` are the hosts that answer the
\* ping and accept the ssh login.
ScenarioInit ==
    /\ program = "library"
    /\ cycle = 0
    /\ SDIdle
    /\ NDIdle
    /\ ColIdle
    /\ scanning = FALSE
    /\ sweep = IdleSweep
    /\ backlog = {}
    /\ reachable \in SUBSET Hosts

\* _ping_host(ip): the ping is answered.
ping_host(ip) ==
    ip \in reachable

test_ssh_connection_always(ip) ==
    TRUE

\* test_ssh_connection(ip, username, password): the ssh command returns 0.
test_ssh_connection(ip) ==
    ip \in reachable

ScenarioNext ==
    /\ program = "library"
    /\ \/ ScanNetwork({ip \in Hosts : ping_host(ip)})
       \/ \E ip \in Hosts, password \in Passwords, srv_raised, sys_raised \in BOOLEAN :
             ConnectToServer(ip, password, test_ssh_connection(ip), srv_raised,
                             sys_raised)
       \/ \E ip \in Hosts : DisconnectFromServer(ip)
    /\ UNCHANGED <<program, ndvars, colvars, scanvars, outvars>>

SpecScenario == ScenarioInit /\ [][ScenarioNext]_vars

\* ---- the text the library prints and keeps
\* The ssh prefix of _get_server_info / _get_system_info and the argument
\* list of test_ssh_connection: `sshpass -p "<password>" ssh ...` when a
\* password is given, a key-based ssh command otherwise.  The value is the
\* password the command line quotes ("" for none).
ssh_prefix(password) ==
    password

\* str(e) of a caught exception: subprocess.TimeoutExpired quotes the
\* command that timed out, a parsing error (ValueError, IndexError) does not.
str_e(exception, password) ==
    [exception |-> exception,
     password |-> IF exception = "TimeoutExpired" THEN ssh_prefix(password)
                  ELSE ""]

\* test_ssh_connection: print(f"SSH test error: {e}") when the probe raised.
test_ssh_connection_print(password, raised) ==
    IF raised
    THEN {[line |-> "SSH test error",
           password |-> str_e("TimeoutExpired", password).password]}
    ELSE {}

\* _get_system_info: print(f"Debug: Running CPU command: {cpu_cmd}")
get_system_info_print(password) ==
    {[line |-> "Debug: Running CPU command", password |-> ssh_prefix(password)]}

\* connect_to_server with the text of the exception its collections caught
\* (what it prints is not followed).  timed_out: the exception is a
\* TimeoutExpired.
ConnectKeepingText(ip, password, probe_ok, srv_raised, sys_raised, timed_out) ==
    /\ ConnectToServer(ip, password, probe_ok, srv_raised, sys_raised)
    /\ IF probe_ok /\ sys_raised THEN TRUE ELSE timed_out = (probe_ok /\ srv_raised)
    /\ exc_text' =
          IF probe_ok /\ (srv_raised \/ sys_raised)
          THEN Put(exc_text, cycle + 1,
                   str_e(IF timed_out THEN "TimeoutExpired" ELSE "ValueError",
                         password))
          ELSE exc_text
    /\ UNCHANGED stdout

\* ServerDiscovery used from one thread: scans, connects and polls in any
\* order, and then save_configuration.  The run is followed up to its save.
SecretsNext ==
    /\ program = "library"
    /\ \/ /\ ~config_file.exists
          /\ \/ \E found \in SUBSET Hosts : ScanNetwork(found)
             \/ GetConnectedServersInfo
             \/ \E raised \in BOOLEAN : PollNext("caller", raised)
             \/ PollStore("caller")
          /\ UNCHANGED outvars
       \/ /\ ~config_file.exists
          /\ \E ip \in Hosts, password \in Passwords,
                probe_ok, srv_raised, sys_raised, timed_out \in BOOLEAN :
                ConnectKeepingText(ip, password, probe_ok, srv_raised,
                                   sys_raised, timed_out)
       \/ /\ \E io_ok \in BOOLEAN : SaveConfiguration(io_ok)
          /\ UNCHANGED outvars
    /\ UNCHANGED <<program, ndvars, colvars, scanvars>>

SpecSecrets == LibraryInit /\ [][SecretsNext]_vars

\* connect_to_server with what it prints.  raised: test_ssh_connection
\* caught an exception.
ConnectPrinting(ip, password, probe_ok, srv_raised, sys_raised, raised) ==
    /\ ConnectToServer(ip, password, probe_ok, srv_raised, sys_raised)
    /\ raised => ~probe_ok
    /\ stdout' = stdout \cup
                    (IF probe_ok THEN get_system_info_print(password)
                     ELSE test_ssh_connection_print(password, raised))
    /\ UNCHANGED exc_text

\* One step of get_connected_servers_info's for statement with what the
\* collection it starts prints: the password is connection.get('password').
PollPrinting(raised) ==
    /\ PollNext("caller", raised)
    /\ stdout' = stdout \cup
                    (IF tick'["caller"].pc = "store"
                     THEN get_system_info_print(
                             Get(IterDict("caller")[tick'["caller"].cur],
                                 "password", ""))
                     ELSE {})
    /\ UNCHANGED exc_text

\* ServerDiscovery used from one thread: connects and polls, with the output.
PrintsNext ==
    /\ program = "library"
    /\ \/ \E ip \in Hosts, password \in Passwords,
             probe_ok, srv_raised, sys_raised, raised \in BOOLEAN :
             ConnectPrinting(ip, password, probe_ok, srv_raised, sys_raised,
                             raised)
       \/ /\ GetConnectedServersInfo
          /\ UNCHANGED outvars
       \/ \E raised \in BOOLEAN : PollPrinting(raised)
       \/ /\ PollStore("caller")
          /\ UNCHANGED outvars
    /\ UNCHANGED <<program, ndvars, colvars, scanvars>>

SpecPrints == LibraryInit /\ [][PrintsNext]_vars

\* ================================================================= claims
\* The keys of a stored record that hold readings.
MetricKeys ==
    {"cpu_percent", "memory_percent", "disk_percent", "load_avg",
     "memory_info", "disk_info", "disk_partitions", "processes"}

\* The host has a discovered record that shows it as found but not connected.
InDiscoveredState(h) ==
    /\ h \in DOMAIN discovered_servers
    /\ discovered_servers[h].status = "discovered"
    /\ discovered_servers[h].ssh_connected = FALSE

\* The step is the part of a connect call that follows a successful
\* test_ssh_connection for host h.
ConnectedByProbe(h) ==
    \/ /\ caller.pc = "idle"
       /\ caller'.pc = "connect_refresh"
       /\ caller'.ip = h
    \/ /\ program = "library"
       /\ caller.pc = "idle"
       /\ cycle' # cycle
       /\ response' = [op |-> "connect", ip |-> h, success |-> TRUE]

\* C1: no operation takes a host that is in the connected set, and stays in
\* it, back to the Discovered state (a discovered record with status
\* 'discovered' and ssh_connected false); a re-scan leaves it Connected.
C1_NoReturnToDiscovered ==
    [][\A h \in Hosts :
          (/\ h \in DOMAIN connected_servers
           /\ h \in DOMAIN connected_servers'
           /\ ~InDiscoveredState(h))
          => ~InDiscoveredState(h)']_vars

\* C2: a host enters the connected set only in a connect step whose
\* test_ssh_connection succeeded; scan, load_configuration and polling
\* never put a host into it.
C2_ConnectedOnlyAfterProbe ==
    [][\A h \in Hosts :
          (h \notin DOMAIN connected_servers /\ h \in DOMAIN connected_servers')
          => ConnectedByProbe(h)]_vars

\* C3: a disconnect of a connected host leaves a record for that host in the
\* registry, also when the host was connected without having been found by
\* a scan.
C3_DisconnectKeepsRecord ==
    [][\A h \in Hosts :
          (/\ h \in DOMAIN connected_servers
           /\ response' = [op |-> "disconnect", ip |-> h, success |-> TRUE])
          => h \in (DOMAIN discovered_servers') \cup (DOMAIN connected_servers')]_vars

\* C4: a connect call on a host that is already connected leaves it
\* connected and leaves the sets of connected and of discovered addresses
\* (hence their counts) as they were, through every step of the call.
C4_ConnectIdempotent ==
    [][/\ \A h \in DOMAIN connected_servers :
            ConnectedByProbe(h)
            => /\ DOMAIN connected_servers' = DOMAIN connected_servers
               /\ Cardinality(DOMAIN connected_servers') =
                     Cardinality(DOMAIN connected_servers)
               /\ DOMAIN discovered_servers' = DOMAIN discovered_servers
               /\ connected_servers'[h].ssh_connected
       /\ caller.pc \in {"connect_refresh", "connect_stamp"}
            => /\ DOMAIN connected_servers' = DOMAIN connected_servers
               /\ DOMAIN discovered_servers' = DOMAIN discovered_servers]_vars

\* C4 witness: the last completed request connected host h, and a further
\* connect call for h has passed its probe and stored its record.
C4_Witness ==
    /\ program = "web_dashboard"
    /\ caller.pc = "connect_refresh"
    /\ response = [op |-> "connect", ip |-> caller.ip, success |-> TRUE]
    /\ caller.ip \in DOMAIN connected_servers

\* The readings held in a stored info dictionary.
StoredMetrics(info) ==
    [k \in (DOMAIN info) \cap MetricKeys |-> info[k]]

\* The readings are exactly the result of one successful collection.
CompleteSnapshot(info) ==
    \E c \in 1..MaxCycles : StoredMetrics(info) = SystemInfoDict(c, FALSE)

\* C5: stored readings are replaced only by the complete result of one
\* successful collection: a failed or partial collection never overwrites a
\* stored complete snapshot, in whole or in part.
C5_AtomicReplace ==
    [][/\ \A h \in (DOMAIN connected_servers) \cap (DOMAIN connected_servers') :
            (/\ CompleteSnapshot(connected_servers[h].info)
             /\ StoredMetrics(connected_servers'[h].info) #
                   StoredMetrics(connected_servers[h].info))
            => CompleteSnapshot(connected_servers'[h].info)
       /\ \A h \in DOMAIN nd_scan_results' :
            (\/ h \notin DOMAIN nd_scan_results
             \/ nd_scan_results'[h] # nd_scan_results[h])
            => \E c \in 1..MaxCycles : nd_scan_results'[h] = StatusDict(h, c)]_vars

\* Every field of the record comes from the same collection.
FromOneCollection(rec) ==
    \E c \in 1..MaxCycles, raised \in BOOLEAN :
        /\ rec.last_check = c
        /\ StoredMetrics(rec.info) = StoredMetrics(SystemInfoDict(c, raised))

\* C6: at no moment, hence for no concurrent reader, does a connected record
\* hold readings of one collection together with the last_check of another.
C6_NoTornRecord ==
    \A h \in DOMAIN connected_servers : FromOneCollection(connected_servers[h])

\* The value a field has when only its own command output decides it:
\* the parsed value of a well-formed output, 0 for any other output.
OwnCpu(out) ==
    IF out = MpstatLine(Num(MaxSample)) THEN 100 - MaxSample ELSE 0

OwnMemory(out) ==
    IF out = FreeLine(Num(MaxSample), Num(20)) THEN 2000 \div MaxSample ELSE 0

OwnDisk(out) ==
    IF out = DfLine(Pct(30)) THEN 30 ELSE 0

OwnLoad(out) ==
    IF out # <<>> /\ Head(out) = Num(2) THEN 2 ELSE 0

\* The same for the outputs NetworkDiscovery reads differently: the CPU
\* figure is the whole output, df's percentage may come without its sign,
\* the load average has three numbers.
OwnTopCpu(out) ==
    IF out = <<Num(MaxSample)>> THEN MaxSample ELSE 0

OwnDfPercent(out) ==
    IF out \in {DfLine(Pct(30)), DfLine(Num(30))} THEN 30 ELSE 0

OwnLoadTriple(out) ==
    IF out = <<Num(2), Num(3), Num(4)>> THEN 2 ELSE 0

OwnProcesses(out) ==
    Cardinality({i \in 1..Len(out) : out[i] \in {PsLine(Num(7), Num(5)), PsLine(Num(8), Num(5))}})

\* C7: whatever a command printed (nothing, too few fields, a field that is
\* not a number), the collection over a usable channel returns a successful
\* snapshot in which every field is decided by its own output alone.
C7_ParseFailuresLocal ==
    /\ (sd_result.returned /\ cmd_outputs.channel)
       => /\ "error" \notin DOMAIN sd_result
          /\ sd_result.cpu_percent = OwnCpu(cmd_outputs.cpu)
          /\ sd_result.memory_percent = OwnMemory(cmd_outputs.mem)
          /\ sd_result.disk_percent = OwnDisk(cmd_outputs.disk)
          /\ sd_result.load_avg = OwnLoad(cmd_outputs.load)
          /\ Len(sd_result.processes) = OwnProcesses(cmd_outputs.ps)
    /\ (nd_result.returned /\ cmd_outputs.channel)
       => /\ nd_result.status
          /\ nd_result.cpu_usage = OwnTopCpu(cmd_outputs.cpu)
          /\ nd_result.memory_usage = OwnMemory(cmd_outputs.mem)
          /\ nd_result.disk_usage = OwnDfPercent(cmd_outputs.disk)
          /\ nd_result.load_average = OwnLoadTriple(cmd_outputs.load)

\* C8: when the collection made for a connected host in a polling tick
\* failed, the loop body records it on the stored record: status Error and
\* the description of that failure.
C8_PollFailureRecorded ==
    [][\A p \in Pollers :
          (/\ tick[p].pc = "store"
           /\ tick'[p].pc = "iter"
           /\ "error" \in DOMAIN tick[p].sys
           /\ tick[p].cur \in DOMAIN connected_servers')
          => /\ "error" \in DOMAIN connected_servers'[tick[p].cur].info
             /\ connected_servers'[tick[p].cur].info.error = tick[p].c
             /\ connected_servers'[tick[p].cur].info.status = "Error"]_vars

\* The collection whose result the loop body is about to handle failed.
PollFailed(p) ==
    /\ tick[p].pc = "store"
    /\ \/ "error" \in DOMAIN tick[p].sys
       \/ tick[p].cur \notin DOMAIN connected_servers

\* C9: a failure for one host does not stop the loop for the others.  In
\* get_connected_servers_info the loop goes on after a failed host with the
\* entries made so far, and a call that returns has an entry for every
\* connected host; in check_server_accessibility every submitted address is
\* handled; in _monitor_loop every address of the tick is visited and the
\* loop goes back to its while test.
C9_LoopSurvivesFailure ==
    [][/\ \A p \in Pollers :
            /\ (PollFailed(p) /\ tick'[p].pc # "store")
               => /\ tick'[p].pc = "iter"
                  /\ tick'[p].done = tick[p].done \cup {tick[p].cur}
                  /\ DOMAIN tick'[p].servers_info =
                        (DOMAIN tick[p].servers_info) \cup {tick[p].cur}
            /\ (/\ tick[p].pc = "iter"
                /\ tick'[p].pc = "idle"
                /\ Cardinality(DOMAIN IterDict(p)) = tick[p].size)
               => DOMAIN IterDict(p) \subseteq DOMAIN tick[p].servers_info
       /\ nd_caller.pc = "check"
            => nd_caller'.pending \cup nd_caller'.in_flight
                  \cup DOMAIN nd_caller'.done \cup nd_caller'.checked
                  = DOMAIN nd_discovered
       /\ (nd_loop.pc = "collect" /\ nd_loop'.pc # "collect")
            => /\ nd_loop'.pc = "tick"
               /\ nd_loop'.todo \cup nd_loop'.visited = nd_loop.snapshot
       /\ (nd_loop.pc = "tick" /\ nd_loop'.pc = "test")
            => nd_loop.visited = nd_loop.snapshot]_vars

\* C9 witness: a tick holds the entry of a host whose collection failed and
\* the entry of a host polled after it.
C9_Witness ==
    \E p \in Pollers : \E h1, h2 \in DOMAIN tick[p].servers_info :
        /\ "error" \in DOMAIN Get(tick[p].servers_info[h1], "system_info", EmptyDict)
        /\ tick[p].servers_info[h2].last_check > tick[p].servers_info[h1].last_check

\* C10: a stored record that holds readings of a successful collection holds
\* no error description of an earlier failure.
C10_ErrorCleared ==
    \A h \in DOMAIN connected_servers :
        LET info == connected_servers[h].info
        IN "error" \in DOMAIN info
           => \A k \in MetricKeys \cap DOMAIN info : info[k] <= info.error

\* The entry a tick made for a host whose collection succeeded.
PolledOk(entry) ==
    /\ entry.status = "Online"
    /\ "error" \notin DOMAIN entry.system_info

\* C11: when a call of get_connected_servers_info returns, the stored
\* readings of every host it polled successfully and that is still connected
\* are the readings collected in that call (or those of a collection
\* recorded after it), and a status NetworkDiscovery's loop obtained is the
\* one stored.
C11_TickWritesBack ==
    [][/\ \A p \in Pollers :
            (tick[p].pc = "iter" /\ tick'[p].pc = "idle")
            => \A h \in (DOMAIN tick[p].servers_info) \cap (DOMAIN connected_servers) :
                  PolledOk(tick[p].servers_info[h])
                  => \/ StoredMetrics(connected_servers[h].info) =
                           tick[p].servers_info[h].system_info
                     \/ connected_servers[h].last_check >
                           tick[p].servers_info[h].last_check
       /\ (nd_loop.pc = "collect" /\ nd_loop'.pc = "tick")
            => \/ nd_scan_results' = nd_scan_results
               \/ nd_scan_results'[nd_loop.cur] = StatusDict(nd_loop.cur, nd_loop.c)]_vars

\* The step is the return of scan_network().
ScanReturns ==
    sweep.pc = "drain" /\ sweep'.pc = "idle"

\* C12: once stop_scanning() has been called during a scan, no probe is
\* dispatched any more, in the current range or a later one; the probes
\* already started finish, and every address that answered is returned and
\* stored as discovered.
C12_ScanCancellable ==
    [][/\ (program = "scan" /\ sweep.pc # "idle"
              /\ sweep'.dispatched # sweep.dispatched)
            => ~sweep.stopped
       /\ (program = "scan" /\ sweep.stopped /\ sweep.pc # "idle")
            => sweep.in_flight \ sweep'.in_flight \subseteq
                  {ip \in sweep.in_flight :
                      ip \in reachable => ip \in sweep'.results}
       /\ ScanReturns
            => /\ sweep'.returned = sweep.dispatched \cap reachable
               /\ sweep'.returned \subseteq DOMAIN discovered_servers'
               /\ \A ip \in sweep'.returned :
                     discovered_servers'[ip].status = "discovered"]_vars

\* C12 witness: a scan that was stopped after it had started probes and
\* before it had probed every address has returned the addresses that
\* answered, one of them probed in the batch that was in flight at the stop.
C12_Witness ==
    /\ program = "scan"
    /\ sweep.pc = "idle"
    /\ sweep.stopped
    /\ response.op = "scan"
    /\ Cardinality(sweep.dispatched) = ThreadCap
    /\ sweep.returned = sweep.dispatched
    /\ sweep.returned \subseteq DOMAIN discovered_servers

\* C14: a sweep that was not cancelled returns exactly the host addresses of
\* its ranges that answered the probe, whatever the order in which the probe
\* threads end.
C14_SweepExact ==
    [][(ScanReturns /\ ~sweep.stopped)
          => /\ sweep.dispatched = AllRangeHosts
             /\ sweep'.returned = reachable]_vars

\* C14 witness: an uncancelled sweep has returned, and some hosts answered
\* while others did not.
C14_Witness ==
    /\ program = "scan"
    /\ sweep.pc = "idle"
    /\ response.op = "scan"
    /\ ~sweep.stopped
    /\ Cardinality(sweep.returned) >= 2
    /\ sweep.returned # AllRangeHosts

\* C16: no sweep probes the local machine's own address, nor the network
\* address or the broadcast address of a range.
C16_ExcludedAddresses ==
    /\ LocalAddress \notin sweep.dispatched
    /\ \A r \in Ranges :
          /\ NetworkAddress(r) \notin sweep.dispatched
          /\ BroadcastAddress(r) \notin sweep.dispatched
    /\ LocalAddress \notin DOMAIN discovered_servers

\* C13: a stop-scan request sent while a scan request is in progress is
\* processed while that scan is running, and the scan dispatches no probe
\* after it.
C13_StopScanTakesEffect ==
    [][/\ (sweep.pc = "quick" /\ sweep'.dispatched # sweep.dispatched)
            => ~sweep.stopped
       /\ (sweep.stopped /\ "stop-scan" \in backlog /\ "stop-scan" \notin backlog')
            => sweep.pc = "quick"]_vars

\* C15: never more than ThreadCap liveness probes of scan_network are in
\* flight, and never more than max_workers shell-access probes of the
\* accessibility check.
C15_InFlightBounded ==
    /\ Cardinality(sweep.in_flight) <= ThreadCap
    /\ Cardinality(nd_caller.in_flight) <= max_workers

\* C15 witness: a scan has a full batch in flight with addresses still to
\* probe.
C15_Witness ==
    /\ program = "scan"
    /\ sweep.pc = "join"
    /\ Cardinality(sweep.in_flight) = ThreadCap
    /\ sweep.i <= RangeSize

\* C15, the accessibility check: the pool is full and a future is waiting.
C15_WitnessPool ==
    /\ nd_caller.pc = "check"
    /\ Cardinality(nd_caller.in_flight) = max_workers
    /\ nd_caller.pending # {}

\* A polling loop has been told to stop and its thread has not ended.
Stopping ==
    \/ /\ program \in {"web_dashboard", "resource_manager"}
       /\ ~running
       /\ tick["monitor"].pc # "off"
    \/ /\ program = "network_monitor"
       /\ ~nd_running
       /\ nd_loop.pc # "off"

\* The thread of the polling loop has ended.
LoopEnded ==
    \/ /\ program \in {"web_dashboard", "resource_manager"}
       /\ tick["monitor"].pc = "off"
    \/ /\ program = "network_monitor"
       /\ nd_loop.pc = "off"

\* The step starts a tick of a polling loop.
TickStarts ==
    \/ /\ program = "web_dashboard"
       /\ tick["monitor"].pc = "idle"
       /\ tick'["monitor"].pc = "iter"
    \/ /\ program = "resource_manager"
       /\ tick["monitor"].pc = "idle"
       /\ tick'["monitor"].pc = "collect"
    \/ /\ program = "network_monitor"
       /\ nd_loop.pc = "test"
       /\ nd_loop'.pc = "tick"

\* The step is the return of a stop_monitoring call.
StopReturns ==
    \/ /\ program \in {"web_dashboard", "resource_manager"}
       /\ caller.pc \in {"join", "join_elapsed"}
       /\ caller'.pc = "idle"
    \/ /\ program = "network_monitor"
       /\ nd_caller.pc \in {"join", "join_elapsed"}
       /\ nd_caller'.pc = "idle"

C18_TickPollsSnapshot ==
    [][/\ \A p \in Pollers :
            (tick[p].pc = "iter" /\ tick'[p].pc = "idle")
               => DOMAIN tick[p].servers_info = tick[p].snapshot
       /\ (nd_loop.pc = "tick" /\ nd_loop'.pc = "tick")
            => nd_loop'.visited = nd_loop.visited]_vars

\* The threads that are inside a collection (_get_system_info) for host h:
\* a poller in the body of its loop, the request thread in the refresh of
\* handle_connect_server.
CollectsInFlight(h) ==
    {p \in Pollers : tick[p].pc = "store" /\ tick[p].cur = h}
    \cup (IF caller.pc = "connect_refresh" /\ caller.ip = h
          THEN {"request"} ELSE {})

\* C19: at any moment at most one collection is in flight for a host.
C19_OneCollectPerHost ==
    \A h \in Hosts : Cardinality(CollectsInFlight(h)) <= 1

\* C20: when the poll interval has run out while the collection of one host
\* is still in flight, no other monitored host is left waiting for it: the
\* next collection of the other hosts does not depend on that collection
\* coming to its end.
C20_TickIsolation ==
    (nd_loop.pc = "collect" /\ nd_loop.overdue)
       => (DOMAIN nd_accessible) \ {nd_loop.cur} = {}

\* C21: a tick of the polling thread that runs while another thread
\* connects, disconnects, scans or loads the configuration is not aborted
\* by it (the for statement does not raise) and none of its writes fails
\* (the record it stamps is still there).
C21_ConcurrentMutatorsSafe ==
    [][\A p \in Pollers :
          /\ (tick[p].pc = "iter" /\ tick'[p].pc = "idle")
               => Cardinality(DOMAIN IterDict(p)) = tick[p].size
          /\ (tick[p].pc = "store" /\ tick'[p].pc = "iter")
               => tick[p].cur \in DOMAIN connected_servers]_vars

\* The passwords quoted by the text stored in an info dictionary.
InfoPasswords(info) ==
    IF "error" \in DOMAIN info
    THEN {exc_text[info.error].password} \ {""}
    ELSE {}

\* The passwords a stored or saved record holds, as a field or in a text.
RecordPasswords(rec) ==
    ({Get(rec, "password", "")} \ {""})
    \cup InfoPasswords(Get(rec, "info", EmptyDict))

\* C22: the document written by save_configuration holds no password,
\* neither under the connected servers nor under the discovered servers.
C22_SavedWithoutPasswords ==
    config_file.exists
       => /\ \A ip \in DOMAIN config_file.connected_servers :
                RecordPasswords(config_file.connected_servers[ip]) = {}
          /\ \A ip \in DOMAIN config_file.discovered_servers :
                RecordPasswords(config_file.discovered_servers[ip]) = {}

\* C23: nothing the program prints quotes a password.
C23_NoPasswordPrinted ==
    \A l \in stdout : l.password = ""

\* C24: a switch of the active view changes current_server only: no step of
\* the request thread between the arrival of the request and its response
\* changes a record of the registry.
C24_SwitchLeavesRegistry ==
    [][(caller.pc = "switch" /\ tick'["caller"] # tick["caller"])
          => /\ connected_servers' = connected_servers
             /\ discovered_servers' = discovered_servers]_vars

\* The step is a successful connect_to_server(a) made right after a sweep,
\* with no host connected yet.
ConnectAfterSweep(a) ==
    /\ response.op = "scan"
    /\ connected_servers = EmptyDict
    /\ response'.op = "connect"
    /\ response'.ip = a
    /\ a \in reachable

\* C25: after a sweep and connect(a) for a host a that answers both probes,
\* a is the only connected host; a host that never answers is never
\* connected and is absent from the registry or held as not connected.
C25_SweepThenConnect ==
    /\ [][\A a \in Hosts :
             ConnectAfterSweep(a)
                => /\ DOMAIN connected_servers' = {a}
                   /\ connected_servers'[a].ssh_connected
                   /\ a \in DOMAIN discovered_servers']_vars
    /\ [](\A h \in Hosts \ reachable :
             /\ h \notin DOMAIN connected_servers
             /\ h \in DOMAIN discovered_servers
                  => ~discovered_servers[h].ssh_connected)

\* C25 witness: of two hosts one answers; after the sweep and the connect
\* it is the one connected host and the other is not in the registry.
C25_Witness ==
    /\ program = "library"
    /\ Cardinality(reachable) = 1
    /\ response = [op |-> "connect", ip |-> CHOOSE a \in reachable : TRUE,
                   success |-> TRUE]
    /\ DOMAIN connected_servers = reachable
    /\ DOMAIN discovered_servers = reachable

\* C26: a load_configuration that directly follows a save_configuration which
\* wrote the file succeeds, and leaves the registry with the discovered
\* records it had, the connected records it had less their password key, and
\* the address ranges it had.
LoadAfterSave ==
    /\ response.op = "save"
    /\ response.success
    /\ response'.op = "load"

LastOctetAllowed ==
    IF sweep.start_ip + sweep.max_ips - 1 < RangeSize
    THEN sweep.start_ip + sweep.max_ips - 1
    ELSE RangeSize

C27_QuickScanBounded ==
    program = "dashboard_scan"
       => /\ Cardinality(sweep.dispatched) <= sweep.max_ips
          /\ \A ip \in sweep.dispatched :
                /\ ip[1] = 1
                /\ sweep.start_ip <= ip[2]
                /\ ip[2] <= LastOctetAllowed

\* A quick_scan asked for more addresses than the range has left has
\* returned, after trying the last address of the range.
C27_Witness ==
    /\ program = "dashboard_scan"
    /\ sweep.pc = "idle"
    /\ response.op = "scan"
    /\ sweep.max_ips >= 2
    /\ sweep.start_ip + sweep.max_ips - 1 > RangeSize
    /\ <<1, RangeSize>> \in sweep.dispatched
    /\ Cardinality(sweep.dispatched) >= 2

\* C28: whatever start_monitoring and stop_monitoring calls have been made, at
\* most one polling loop is running: while the flag is set no two threads are
\* inside _monitor_loop.
C28_OneLoop ==
    (program = "monitor_restart" /\ nd_running)
       => Cardinality(LiveLoops) <= 1

\* C29: two scan_network calls that overlap do not disturb each other: a
\* call leaves its dispatch loop only when its range is exhausted (no
\* stop_scanning is called here), and get_status_summary reports scanning
\* as long as a call is in its dispatch loop.
C29_ScansIndependent ==
    [][program = "two_scans"
          => \A s \in ScanCalls :
                /\ (sweep[s].pc = "loop" /\ sweep'[s].pc = "drain")
                      => sweep[s].i > RangeSize
                /\ sweep[s].pc \in {"loop", "join"}
                      => get_status_summary.scanning]_vars

\* C30: in NetworkDiscovery every host with a stored result in scan_results
\* is in accessible_servers, and every accessible host is in
\* discovered_servers.
C30_ResultsWithinAccessible ==
    program = "network_monitor"
       => /\ DOMAIN nd_scan_results \subseteq DOMAIN nd_accessible
          /\ DOMAIN nd_accessible \subseteq DOMAIN nd_discovered

====
